---- MODULE Spec2Model ----
(***************************************************************************)
(* A model of the resilience and processing core of BoxQ:                  *)
(*   - CircuitBreaker    (src/src/core/CircuitBreaker.js)                  *)
(*   - RetryManager      (src/unnamed/part_011, lines 1-173)               *)
(*   - SQSClient         (src/src/core/SQSClient.js)                       *)
(*   - DeduplicationManager (src/src/utils/DeduplicationManager.js)        *)
(*   - MessagePublisher  (src/src/publishers/MessagePublisher.js)          *)
(*   - ProcessingEngine  (src/src/consumers/ProcessingEngine.js)           *)
(*   - MessageConsumer   (src/src/consumers/MessageConsumer.js)            *)
(* Each component has its own specification (SpecBreaker, SpecRetry,       *)
(* SpecEngine, SpecConsumer, SpecClient, SpecDedup, SpecPublisher); the    *)
(* variables of the other components keep their initial values in it.      *)
(* SpecConsumerFair is SpecConsumer with weak fairness on the loop steps.  *)
(* SpecRestart is the consumer with start() called at any time.           *)
(***************************************************************************)
EXTENDS Integers, Sequences, FiniteSets, TLC

\* ------------------------------------------------------------------ bounds
\* Largest failureThreshold / timeout (ms) a breaker is constructed with.
MaxThreshold == 3
MaxTimeout == 2
\* Date.now() runs from 0 to MaxTime.
MaxTime == 5
\* failureCount and successCount are capped here (the code never caps them).
MaxCount == 4

\* Largest maxRetries a RetryManager is configured with.
MaxRetriesCfg == 4

\* Messages handed to a ProcessingEngine called directly in one behaviour,
\* over all its calls.
MaxMsgs == 5
\* Messages received by a MessageConsumer in one behaviour, over all its
\* receives.
MaxRecv == 3
\* _consumeLoop calls made for one MessageConsumer in one behaviour, when
\* start() is called whatever the loops of earlier calls are doing.
MaxLoops == 2
\* awsClient.send() calls made through an SQSClient in one behaviour, over all
\* its commands.
MaxSends == 4
\* Largest cacheExpiry (ms) a DeduplicationManager is reconfigured to.
MaxExpiry == 2
\* publish() calls made on a MessagePublisher in one behaviour, and the
\* largest Date.now() they are made at.
MaxPublishes == 2
MaxPublishTime == 2
\* Largest batchSize / maxConcurrency configured.
MaxBatch == 3
MaxConc == 2

\* ------------------------------------------------------- program constants
\* CircuitBreaker constructor defaults.
DefaultFailureThreshold == 5
DefaultTimeout == 60000

\* RetryManager constructor defaults.
DefaultMaxRetries == 3
DefaultBackoffMultiplier == 2
DefaultMaxBackoffMs == 30000
DefaultInitialDelayMs == 1000

\* ProcessingEngine constructor defaults.
DefaultBatchSize == 5
DefaultMaxConcurrency == 10

\* MessageConsumer constructor defaults.
DefaultMaxMessages == 10
DefaultPollingInterval == 1000

\* DeduplicationManager constructor: cacheExpiry (5 minutes).
DefaultCacheExpiry == 300000
\* MessagePublisher.publishBatch: `options.batchSize || 10`
DefaultPublishBatchSize == 10

\* JavaScript null; arithmetic on it reads 0 (now - null = now).
NULL == -1
Num(x) == IF x = NULL THEN 0 ELSE x

VARIABLES
  \* ---- CircuitBreaker
  cb,            \* the breaker object: state, failureCount, successCount,
                 \* lastFailureTime, failureThreshold, timeout
  now,           \* Date.now()
  cbOp,          \* the last breaker method called ("new" after construction)
  cbRet,         \* what the last canExecute() call returned
  cbPre,         \* the breaker object as it was before the last call
  onlyFailures,  \* no recordSuccess() since construction or the last reset()
  halfSucc,      \* recordSuccess() calls since the last OPEN -> HALF_OPEN
                 \* change with no recordFailure()/reset() since; NULL if none
  failuresRecorded \* recordFailure() calls since construction or the last
                 \* reset(), counted up to one past failureThreshold

VARIABLES
  \* ---- RetryManager
  rm,            \* the manager object: maxRetries, backoffMultiplier (a
                 \* rational [n, d]), maxBackoffMs, initialDelayMs
  rtFn,          \* the method called: "executeWithRetry" or
                 \* "executeWithRetryDetailed"
  rtPc,          \* where the call is: "idle", "awaitFn", "sleeping",
                 \* "returned", "thrown"
  rtOpts,        \* the options of the call: shouldRetry and the hooks given?
  attempt,       \* the loop variable of executeWithRetry
  calls,         \* invocations of fn made by the call
  delays,        \* the delays slept by the call, in order
  onRetryLog,    \* the (attempt, delay) pairs onRetry was called with
  onFailureLog,  \* the totalAttempts values onFailure was called with
  refused,       \* shouldRetry(error) returned false in the call
  lastError,     \* the local lastError (the error of invocation k of fn is
                 \* named k; NULL before the first failure)
  attempts,      \* the local attempts[] of executeWithRetryDetailed
  rtOut          \* what the call settled with: the value returned or the
                 \* error thrown

VARIABLES
  \* ---- ProcessingEngine
  pe,            \* the engine object: mode, batchSize, maxConcurrency and
                 \* processingStats (totalProcessed, totalFailed)
  peMsgs,        \* the messages argument of the processMessages call
  peOpts,        \* its options argument (0: option not given)
  run,           \* the call in progress: pc, results, the loop variables, the
                 \* handler invocations in flight and their settled outcomes,
                 \* and the history of the call (invoked, threw)
  fed,           \* messages handed to the engine so far, over all calls
  sinceReset     \* what the handler did in the calls that returned since
                 \* construction or the last resetStats(): messages given,
                 \* handler completed, handler threw, body not parsed

VARIABLES
  \* ---- MessageConsumer
  mc,            \* the consumer object: isRunning, messageHandler,
                 \* healthMonitor (attached?) and options
  loopPc,        \* where _consumeLoop is: "none" (never started), "receive",
                 \* "process", "delete", "sleepPoll", "sleepThrottle",
                 \* "sleepError", "exited"
  pendingDeletes,\* receipt handles whose DeleteMessage command is in flight
  deleted,       \* receipt handles a DeleteMessage command was issued for
  threwEver,     \* ids of the messages whose handler threw, over all batches
  hm,            \* recordSuccess / recordFailure calls made on the monitor
  startCall,     \* the last start(handler) call: the handler passed, whether
                 \* the call threw, whether it left isRunning,
                 \* messageHandler and the loop as they were, and whether
                 \* it left the consumer running with that handler stored
                 \* and the first receive issued
  stopCall,      \* the stop() calls made since the last start(): whether one
                 \* was made, where the loop was at the first of them, and
                 \* whether the loop has issued a receive since
  sleepMs,       \* the argument of the _sleep call the loop is waiting in
                 \* (NULL: it is not sleeping)
  deleteCalls,   \* the receipt handles _deleteMessage was called with, in
                 \* call order, over all batches
  deleteFailed,  \* a DeleteMessage command of the last batch that came to
                 \* its deletes has failed
  loops          \* where each _consumeLoop call is, in the order the calls
                 \* were made, when start() is called whatever the loops of
                 \* earlier calls are doing ("none": call not made yet)

VARIABLES
  \* ---- SQSClient (its circuitBreaker is cb, its retryManager is rm)
  cmds,          \* the executeCommand calls, one per caller: where the call
                 \* is ("idle", "sending", "sleeping", "returned", "thrown"),
                 \* the locals of its retry loop, how it settled, and its
                 \* history (sends made, sleeps made, breaker recordings,
                 \* what its canExecute() call returned and did)
  sent           \* awsClient.send() calls made so far, over all commands

VARIABLES
  \* ---- DeduplicationManager (Date.now() is now)
  dd,            \* the manager object: strategy, cacheExpiry and
                 \* deduplicationCache (a map from id to timestamp)
  ddCall,        \* the last isDuplicate(key) call: the key, the time and the
                 \* cacheExpiry of the call, the value returned, and when the
                 \* key was inserted before the call (NULL: not inserted)
  insertedAt     \* for each key, the time of its insertion: the time of its
                 \* first isDuplicate call, or of the first one made more
                 \* than cacheExpiry after the insertion before (NULL: none)

VARIABLES
  \* ---- MessagePublisher (its deduplicationManager is dd)
  pub,           \* the publisher object: is the queue FIFO, the default
                 \* messageGroupId, enableDeduplication
  pubLog,        \* the publish() calls made, in order: body, options, time,
                 \* deduplication id, and where the call is ("sending") or
                 \* how it ended ("sent", "failed", "duplicate")
  pubBatch       \* the publishBatch() call in progress: its batch size, the
                 \* messages after the batch being awaited (those from offset
                 \* i + batchSize on), the publish() calls of that batch
                 \* (indices of pubLog) and the results pushed so far

cbVars == <<cb, now, cbOp, cbRet, cbPre, onlyFailures, halfSucc, failuresRecorded>>
rtVars == <<rm, rtFn, rtPc, rtOpts, attempt, calls, delays, onRetryLog, onFailureLog,
            refused, lastError, attempts, rtOut>>
peVars == <<pe, peMsgs, peOpts, run, fed, sinceReset>>
mcVars == <<mc, loopPc, pendingDeletes, deleted, threwEver, hm, startCall, stopCall, sleepMs,
           deleteCalls, deleteFailed, loops>>
sqVars == <<cmds, sent>>
ddVars == <<dd, ddCall, insertedAt>>
pbVars == <<pub, pubLog, pubBatch>>
vars == <<cbVars, rtVars, peVars, mcVars, sqVars, ddVars, pbVars>>

\* ========================================================== CircuitBreaker

\* constructor(config): `||` replaces a missing (or zero) option by its default.
NewCircuitBreaker(config) ==
  [ failureThreshold |-> IF config.failureThreshold # 0
                         THEN config.failureThreshold ELSE DefaultFailureThreshold,
    timeout          |-> IF config.timeout # 0 THEN config.timeout ELSE DefaultTimeout,
    state            |-> "CLOSED",
    failureCount     |-> 0,
    lastFailureTime  |-> NULL,
    successCount     |-> 0 ]

\* canExecute() with the timeout test written `>=` (off by one millisecond).
canExecute_inclusiveTimeout(b, t) ==
  IF b.state = "CLOSED" THEN [cb |-> b, ret |-> TRUE]
  ELSE IF b.state = "OPEN" THEN
    IF t - Num(b.lastFailureTime) >= b.timeout
    THEN [cb |-> [b EXCEPT !.state = "HALF_OPEN", !.successCount = 0], ret |-> TRUE]
    ELSE [cb |-> b, ret |-> FALSE]
  ELSE IF b.state = "HALF_OPEN" THEN [cb |-> b, ret |-> TRUE]
  ELSE [cb |-> b, ret |-> FALSE]

\* canExecute() whose OPEN -> HALF_OPEN change leaves successCount as it is.
canExecute_keepsSuccessCount(b, t) ==
  IF b.state = "CLOSED" THEN [cb |-> b, ret |-> TRUE]
  ELSE IF b.state = "OPEN" THEN
    IF t - Num(b.lastFailureTime) > b.timeout
    THEN [cb |-> [b EXCEPT !.state = "HALF_OPEN"], ret |-> TRUE]
    ELSE [cb |-> b, ret |-> FALSE]
  ELSE IF b.state = "HALF_OPEN" THEN [cb |-> b, ret |-> TRUE]
  ELSE [cb |-> b, ret |-> FALSE]

\* canExecute() whose OPEN -> HALF_OPEN change zeroes failureCount as well.
canExecute_clearsFailures(b, t) ==
  IF b.state = "CLOSED" THEN [cb |-> b, ret |-> TRUE]
  ELSE IF b.state = "OPEN" THEN
    IF t - Num(b.lastFailureTime) > b.timeout
    THEN [cb |-> [b EXCEPT !.state = "HALF_OPEN", !.successCount = 0,
                           !.failureCount = 0],
          ret |-> TRUE]
    ELSE [cb |-> b, ret |-> FALSE]
  ELSE IF b.state = "HALF_OPEN" THEN [cb |-> b, ret |-> TRUE]
  ELSE [cb |-> b, ret |-> FALSE]

\* canExecute(): the breaker after the call and the value returned.
canExecute(b, t) ==
  IF b.state = "CLOSED" THEN [cb |-> b, ret |-> TRUE]
  ELSE IF b.state = "OPEN" THEN
    IF t - Num(b.lastFailureTime) > b.timeout
    THEN [cb |-> [b EXCEPT !.state = "HALF_OPEN", !.successCount = 0], ret |-> TRUE]
    ELSE [cb |-> b, ret |-> FALSE]
  ELSE IF b.state = "HALF_OPEN" THEN [cb |-> b, ret |-> TRUE]
  ELSE [cb |-> b, ret |-> FALSE]

\* recordSuccess() that closes the breaker without zeroing failureCount.
recordSuccess_keepsFailures(b) ==
  LET b1 == [b EXCEPT !.successCount = @ + 1] IN
  IF b1.state = "HALF_OPEN" /\ b1.successCount >= b1.failureThreshold
  THEN [b1 EXCEPT !.state = "CLOSED", !.successCount = 0]
  ELSE b1

\* recordSuccess() that zeroes failureCount on a success while CLOSED.
recordSuccess_resetsFailures(b) ==
  LET b1 == [b EXCEPT !.successCount = @ + 1] IN
  IF b1.state = "HALF_OPEN" /\ b1.successCount >= b1.failureThreshold
  THEN [b1 EXCEPT !.state = "CLOSED", !.failureCount = 0, !.successCount = 0]
  ELSE IF b1.state = "CLOSED" THEN [b1 EXCEPT !.failureCount = 0]
  ELSE b1

\* recordSuccess()
recordSuccess(b) ==
  LET b1 == [b EXCEPT !.successCount = @ + 1] IN
  IF b1.state = "HALF_OPEN" /\ b1.successCount >= b1.failureThreshold
  THEN [b1 EXCEPT !.state = "CLOSED", !.failureCount = 0, !.successCount = 0]
  ELSE b1

\* recordFailure() with the threshold test written `>` (opens one failure late).
recordFailure_lateOpen(b, t) ==
  LET b1 == [b EXCEPT !.failureCount = @ + 1, !.lastFailureTime = t] IN
  IF b1.state \in {"CLOSED", "HALF_OPEN"} /\ b1.failureCount > b1.failureThreshold
  THEN [b1 EXCEPT !.state = "OPEN"]
  ELSE b1

\* recordFailure() that tests the threshold before counting the failure.
recordFailure_testsBeforeCount(b, t) ==
  LET b1 == [b EXCEPT !.failureCount = @ + 1, !.lastFailureTime = t] IN
  IF b.state \in {"CLOSED", "HALF_OPEN"} /\ b.failureCount >= b.failureThreshold
  THEN [b1 EXCEPT !.state = "OPEN"]
  ELSE b1

\* recordFailure() that opens a CLOSED breaker only: a failure while HALF_OPEN
\* is counted and nothing else.
recordFailure_closedOnly(b, t) ==
  LET b1 == [b EXCEPT !.failureCount = @ + 1, !.lastFailureTime = t] IN
  IF b1.state = "CLOSED" /\ b1.failureCount >= b1.failureThreshold
  THEN [b1 EXCEPT !.state = "OPEN"]
  ELSE b1

\* recordFailure()
recordFailure(b, t) ==
  LET b1 == [b EXCEPT !.failureCount = @ + 1, !.lastFailureTime = t] IN
  IF b1.state \in {"CLOSED", "HALF_OPEN"} /\ b1.failureCount >= b1.failureThreshold
  THEN [b1 EXCEPT !.state = "OPEN"]
  ELSE b1

\* reset() that forgets to zero the counters.
reset_keepsCounters(b) ==
  [b EXCEPT !.state = "CLOSED", !.lastFailureTime = NULL]

\* reset()
reset(b) ==
  [b EXCEPT !.state = "CLOSED", !.failureCount = 0, !.successCount = 0,
            !.lastFailureTime = NULL]

\* getState(), getFailureCount(), getSuccessCount()
getState(b) == b.state
getFailureCount(b) == b.failureCount
getSuccessCount(b) == b.successCount

\* getTimeSinceLastFailure(): null while lastFailureTime is falsy (null, or
\* the time 0).
getTimeSinceLastFailure(b, t) ==
  IF b.lastFailureTime = NULL \/ b.lastFailureTime = 0 THEN NULL
  ELSE t - b.lastFailureTime

\* getStatus(): the object returned and the breaker after the call. The
\* properties are evaluated in the order written, canExecute() last, so the
\* fields before it show the breaker as it was before that call.
getStatus(b, t) ==
  [ cb  |-> canExecute(b, t).cb,
    ret |-> [ state                |-> getState(b),
              failureCount         |-> getFailureCount(b),
              successCount         |-> getSuccessCount(b),
              lastFailureTime      |-> b.lastFailureTime,
              timeSinceLastFailure |-> getTimeSinceLastFailure(b, t),
              canExecute           |-> canExecute(b, t).ret ] ]

\* The read accessors that return one value.
Getters == {"getState", "getFailureCount", "getSuccessCount", "getTimeSinceLastFailure"}

InitBreakerVars ==
  /\ \E th \in 1..MaxThreshold, to \in 1..MaxTimeout :
       cb = NewCircuitBreaker([failureThreshold |-> th, timeout |-> to])
  /\ now = 0
  /\ cbOp = "new"
  /\ cbRet = TRUE
  /\ cbPre = cb
  /\ onlyFailures = TRUE
  /\ halfSucc = NULL
  /\ failuresRecorded = 0

\* The breaker of a specification that never calls it.
InitBreakerIdle ==
  /\ cb = NewCircuitBreaker([failureThreshold |-> 0, timeout |-> 0])
  /\ now = 0
  /\ cbOp = "new"
  /\ cbRet = TRUE
  /\ cbPre = cb
  /\ onlyFailures = TRUE
  /\ halfSucc = NULL
  /\ failuresRecorded = 0

\* ============================================================ RetryManager

\* Non-negative rationals [n, d] stand for the JavaScript numbers of the delay
\* computation (backoffMultiplier may be fractional, e.g. 1.5 = [n: 3, d: 2]).
Rat(n, d) == [n |-> n, d |-> d]
RECURSIVE Pow(_, _)
Pow(b, e) == IF e = 0 THEN 1 ELSE b * Pow(b, e - 1)
\* Math.pow(x, e) for an integer e >= 0
RatPow(x, e) == Rat(Pow(x.n, e), Pow(x.d, e))
\* k * x for an integer k
RatScale(k, x) == Rat(k * x.n, x.d)
\* Math.min(x, k) for an integer k
RatMin(x, k) == IF x.n <= k * x.d THEN x ELSE Rat(k, 1)
\* Math.floor(x)
Floor(x) == x.n \div x.d

\* The options a RetryManager is constructed with (0 stands for an option left
\* out); 3/2 is the 1.5 of the performance guide.
NoMultiplier == Rat(0, 1)
RetryConfigs ==
  [ maxRetries        : 0..MaxRetriesCfg,
    backoffMultiplier : {NoMultiplier, Rat(2, 1), Rat(3, 2)},
    maxBackoffMs      : {0, 300, 1000},
    initialDelayMs    : {0, 1, 100} ]

\* constructor(config)
NewRetryManager(config) ==
  [ maxRetries        |-> IF config.maxRetries # 0
                          THEN config.maxRetries ELSE DefaultMaxRetries,
    backoffMultiplier |-> IF config.backoffMultiplier # NoMultiplier
                          THEN config.backoffMultiplier
                          ELSE Rat(DefaultBackoffMultiplier, 1),
    maxBackoffMs      |-> IF config.maxBackoffMs # 0
                          THEN config.maxBackoffMs ELSE DefaultMaxBackoffMs,
    initialDelayMs    |-> IF config.initialDelayMs # 0
                          THEN config.initialDelayMs ELSE DefaultInitialDelayMs ]

\* updateConfig(config): a field is set when it is given (NULL: undefined).
updateConfig(r, config) ==
  [ maxRetries        |-> IF config.maxRetries # NULL
                          THEN config.maxRetries ELSE r.maxRetries,
    backoffMultiplier |-> IF config.backoffMultiplier # NULL
                          THEN config.backoffMultiplier ELSE r.backoffMultiplier,
    maxBackoffMs      |-> IF config.maxBackoffMs # NULL
                          THEN config.maxBackoffMs ELSE r.maxBackoffMs,
    initialDelayMs    |-> IF config.initialDelayMs # NULL
                          THEN config.initialDelayMs ELSE r.initialDelayMs ]

\* calculateDelay(attempt) computed for the attempt after the one that failed.
calculateDelay_nextAttempt(r, a) ==
  Floor(RatMin(RatScale(r.initialDelayMs, RatPow(r.backoffMultiplier, a + 1)),
               r.maxBackoffMs))

\* calculateDelay(attempt) without the maxBackoffMs cap.
calculateDelay_noCap(r, a) ==
  Floor(RatScale(r.initialDelayMs, RatPow(r.backoffMultiplier, a)))

\* calculateDelay(attempt)
calculateDelay(r, a) ==
  Floor(RatMin(RatScale(r.initialDelayMs, RatPow(r.backoffMultiplier, a)),
               r.maxBackoffMs))

\* The retry test that gives up one attempt early.
willRetry_oneShort(r, a, opts, answer) ==
  a + 1 < r.maxRetries /\ (opts.shouldRetry = "none" \/ answer)

\* The retry test without the shouldRetry(error) call.
willRetry_ignoresShouldRetry(r, a, opts, answer) ==
  a < r.maxRetries

\* The test of the catch block of executeWithRetry: retry after failed attempt
\* a?  `answer` is what shouldRetry(error) returns when the option is given.
willRetry(r, a, opts, answer) ==
  a < r.maxRetries /\ (opts.shouldRetry = "none" \/ answer)

RetryOptions == [shouldRetry : {"none", "given"}, hooks : BOOLEAN]

\* How a call settles: it returns a value or throws an error.  The value that
\* invocation k of fn resolves with is named k, like its error.
NoOutcome == [kind |-> "none", value |-> NULL]
Returns(value) == [kind |-> "return", value |-> value]
Throws(error) == [kind |-> "throw", value |-> error]

InitRetryIdle ==
  /\ rm = NewRetryManager([maxRetries |-> 0, backoffMultiplier |-> NoMultiplier,
                           maxBackoffMs |-> 0, initialDelayMs |-> 0])
  /\ rtPc = "idle"
  /\ rtOpts = [shouldRetry |-> "none", hooks |-> FALSE]
  /\ attempt = 0
  /\ calls = 0
  /\ delays = <<>>
  /\ onRetryLog = <<>>
  /\ onFailureLog = <<>>
  /\ refused = FALSE
  /\ rtFn = "executeWithRetry"
  /\ lastError = NULL
  /\ attempts = <<>>
  /\ rtOut = NoOutcome

InitRetryVars ==
  /\ \E config \in RetryConfigs : rm = NewRetryManager(config)
  /\ rtPc = "idle"
  /\ rtOpts = [shouldRetry |-> "none", hooks |-> FALSE]
  /\ attempt = 0
  /\ calls = 0
  /\ delays = <<>>
  /\ onRetryLog = <<>>
  /\ onFailureLog = <<>>
  /\ refused = FALSE
  /\ rtFn = "executeWithRetry"
  /\ lastError = NULL
  /\ attempts = <<>>
  /\ rtOut = NoOutcome

\* ======================================================== ProcessingEngine

\* Array.prototype.slice(a, b) on a sequence (a, b are 0-based offsets).
slice(array, a, b) ==
  SubSeq(array, a + 1, IF b <= Len(array) THEN b ELSE Len(array))

\* _chunkArray(array, size)
RECURSIVE chunkArray(_, _)
chunkArray(array, size) ==
  IF array = <<>> THEN <<>>
  ELSE <<slice(array, 0, size)>> \o chunkArray(slice(array, size, Len(array)), size)

\* A received message; Body is JSON text ("json") or not ("garbage").
Message(id, body) == [MessageId |-> id, ReceiptHandle |-> id, Body |-> body]

\* The batches of n messages with ids first+1 .. first+n.
Batches(first, n) ==
  { [k \in 1..n |-> Message(first + k, bodies[k])] :
      bodies \in [1..n -> {"json", "garbage"}] }

\* constructor(config) (0: option left out)
NewProcessingEngine(config) ==
  [ mode           |-> config.mode,
    batchSize      |-> IF config.batchSize # 0
                       THEN config.batchSize ELSE DefaultBatchSize,
    maxConcurrency |-> IF config.maxConcurrency # 0
                       THEN config.maxConcurrency ELSE DefaultMaxConcurrency,
    processingStats |-> [totalProcessed |-> 0, totalFailed |-> 0] ]

\* The results object processMessages starts from.
NewResults(messages) ==
  [total |-> Len(messages), successful |-> 0, failed |-> 0, errors |-> <<>>]

\* What the promise of _processSingleMessage(message, handler) settles with;
\* h says whether the handler "returns" or "throws".  Both the parse error and
\* the handler's error are caught and turned into a result with success false.
processSingleMessage(message, h) ==
  IF message.Body = "garbage"
  THEN [status |-> "fulfilled",
        value  |-> [success |-> FALSE, messageId |-> message.MessageId,
                    error |-> "parse"]]
  ELSE IF h = "throws"
  THEN [status |-> "fulfilled",
        value  |-> [success |-> FALSE, messageId |-> message.MessageId,
                    error |-> "handler"]]
  ELSE [status |-> "fulfilled",
        value  |-> [success |-> TRUE, messageId |-> message.MessageId,
                    error |-> "none"]]

\* The try/catch of _processSequential around one message: successful++ when
\* the awaited promise fulfils, failed++ and an errors[] entry when it rejects.
tallySequential(results, message, settle) ==
  IF settle.status = "fulfilled"
  THEN [results EXCEPT !.successful = @ + 1]
  ELSE [results EXCEPT
          !.failed = @ + 1,
          !.errors = Append(@, [messageId |-> message.MessageId, error |-> settle.reason])]

\* One step of the forEach over batchResults that forgets failed++.
tallyOne_noFailedCount(results, message, settle) ==
  IF settle.status = "fulfilled"
  THEN IF settle.value.success
       THEN [results EXCEPT !.successful = @ + 1]
       ELSE [results EXCEPT
               !.errors = Append(@, [messageId |-> settle.value.messageId,
                                     error |-> settle.value.error])]
  ELSE [results EXCEPT
          !.failed = @ + 1,
          !.errors = Append(@, [messageId |-> message.MessageId, error |-> settle.reason])]

\* One step of the forEach over batchResults that counts every fulfilled
\* promise as a success.
tallyOne_ignoresSuccessFlag(results, message, settle) ==
  IF settle.status = "fulfilled"
  THEN [results EXCEPT !.successful = @ + 1]
  ELSE [results EXCEPT
          !.failed = @ + 1,
          !.errors = Append(@, [messageId |-> message.MessageId, error |-> settle.reason])]

\* One step of the forEach over batchResults in _processParallel.
tallyOne(results, message, settle) ==
  IF settle.status = "fulfilled"
  THEN IF settle.value.success
       THEN [results EXCEPT !.successful = @ + 1]
       ELSE [results EXCEPT
               !.failed = @ + 1,
               !.errors = Append(@, [messageId |-> settle.value.messageId,
                                     error |-> settle.value.error])]
  ELSE [results EXCEPT
          !.failed = @ + 1,
          !.errors = Append(@, [messageId |-> message.MessageId, error |-> settle.reason])]

\* The forEach over the settled promises of one chunk, in index order.
RECURSIVE tallyParallel(_, _, _, _)
tallyParallel(results, messages, chunk, settled) ==
  IF chunk = <<>> THEN results
  ELSE tallyParallel(tallyOne(results, messages[Head(chunk)], settled[Head(chunk)]),
                     messages, Tail(chunk), settled)

\* _updateStats(results): the two counters (the timing fields are wall-clock
\* values and are left out).
updateStats(engine, results) ==
  [engine EXCEPT
     !.processingStats.totalProcessed = @ + results.successful,
     !.processingStats.totalFailed = @ + results.failed]

\* resetStats()
resetStats(engine) ==
  [engine EXCEPT !.processingStats = [totalProcessed |-> 0, totalFailed |-> 0]]

\* What the handler did in the calls that returned since construction or the
\* last resetStats(): how many messages the calls were given, for how many of
\* them the handler completed, for how many it threw, and for how many it was
\* not invoked because JSON.parse threw on the body.
NoneHandled == [given |-> 0, completed |-> 0, threw |-> 0, unparsed |-> 0]
noteHandled(history, call, messages) ==
  [ given     |-> history.given + Len(messages),
    completed |-> history.completed + Len(call.invoked) - Cardinality(call.threw),
    threw     |-> history.threw + Cardinality(call.threw),
    unparsed  |-> history.unparsed + Len(messages) - Len(call.invoked) ]

\* The batch size and the concurrency limit of a call.
BatchSizeOf(engine, options) ==
  IF options.batchSize # 0 THEN options.batchSize ELSE engine.batchSize
MaxConcurrencyOf(engine, options) ==
  IF options.maxConcurrency # 0 THEN options.maxConcurrency ELSE engine.maxConcurrency

\* The chunks of a batch cut without regard to maxConcurrency.
ChunksAt_wholeBatch(engine, options, messages, i) ==
  LET indices == [k \in 1..Len(messages) |-> k]
      batch == slice(indices, i, i + BatchSizeOf(engine, options))
  IN chunkArray(batch, Len(batch))

\* The chunks of a batch that runs to the end of the input, whatever the
\* batch size.
ChunksAt_ignoresBatchSize(engine, options, messages, i) ==
  LET indices == [k \in 1..Len(messages) |-> k]
      batch == slice(indices, i, Len(messages))
      concurrencyLimit == IF Len(batch) <= MaxConcurrencyOf(engine, options)
                          THEN Len(batch) ELSE MaxConcurrencyOf(engine, options)
  IN chunkArray(batch, concurrencyLimit)

\* The chunks of the batch that starts at offset i, as message indices:
\* batch = messages.slice(i, i + batchSize), cut into chunks of
\* Math.min(batch.length, maxConcurrency).
ChunksAt(engine, options, messages, i) ==
  LET indices == [k \in 1..Len(messages) |-> k]
      batch == slice(indices, i, i + BatchSizeOf(engine, options))
      concurrencyLimit == IF Len(batch) <= MaxConcurrencyOf(engine, options)
                          THEN Len(batch) ELSE MaxConcurrencyOf(engine, options)
  IN chunkArray(batch, concurrencyLimit)

\* _processSingleMessage is called for the messages of a chunk, in order: each
\* body is parsed and, if that succeeds, the handler is invoked; the call then
\* waits for the handler.  A body that does not parse settles the promise at
\* once.
RECURSIVE startChunk(_, _, _)
startChunk(r, messages, chunk) ==
  IF chunk = <<>> THEN r
  ELSE LET idx == Head(chunk)
           m == messages[idx]
           r1 == IF m.Body = "garbage"
                 THEN [r EXCEPT !.settled = (idx :> processSingleMessage(m, "returns")) @@ @]
                 ELSE [r EXCEPT !.invoked = Append(@, m.MessageId),
                                !.inFlight = @ \cup {idx}]
       IN startChunk(r1, messages, Tail(chunk))

\* No call in progress.
IdleRun ==
  [pc |-> "idle", results |-> NewResults(<<>>), i |-> 0, chunks |-> <<>>,
   inFlight |-> {}, settled |-> <<>>, invoked |-> <<>>, threw |-> {}]

\* processMessages whose sequential loop does not await: every message is
\* started before the first one has settled.
beginRun_noAwait(engine, options, messages) ==
  LET r0 == [IdleRun EXCEPT !.results = NewResults(messages)] IN
  IF messages = <<>> THEN [r0 EXCEPT !.pc = "done"]
  ELSE IF engine.mode = "parallel"
  THEN startChunk([r0 EXCEPT !.pc = "parAwait",
                             !.chunks = ChunksAt(engine, options, messages, 0)],
                  messages, Head(ChunksAt(engine, options, messages, 0)))
  ELSE startChunk([r0 EXCEPT !.pc = "seqAwait", !.chunks = << <<1>> >>],
                  messages, [k \in 1..Len(messages) |-> k])

\* processMessages(messages, handler, options) up to its first await: the
\* results object is made and the first message (sequential) or the first
\* chunk (parallel) is started; with no messages the call is over at once.
beginRun(engine, options, messages) ==
  LET r0 == [IdleRun EXCEPT !.results = NewResults(messages)] IN
  IF messages = <<>> THEN [r0 EXCEPT !.pc = "done"]
  ELSE IF engine.mode = "parallel"
  THEN startChunk([r0 EXCEPT !.pc = "parAwait",
                             !.chunks = ChunksAt(engine, options, messages, 0)],
                  messages, Head(ChunksAt(engine, options, messages, 0)))
  ELSE startChunk([r0 EXCEPT !.pc = "seqAwait", !.chunks = << <<1>> >>],
                  messages, <<1>>)

\* _processSequential resumes after the await of message i+1: the outcome is
\* tallied and the next message is started, or the loop ends.
resumeSequential(r, messages) ==
  LET idx == r.i + 1
      r1 == [r EXCEPT !.results = tallySequential(@, messages[idx], r.settled[idx]),
                      !.settled = <<>>,
                      !.i = idx]
  IN IF idx < Len(messages)
     THEN startChunk([r1 EXCEPT !.chunks = << <<idx + 1>> >>], messages, <<idx + 1>>)
     ELSE [r1 EXCEPT !.pc = "done", !.chunks = <<>>]

\* _processParallel resumes after Promise.allSettled of a chunk: the chunk is
\* tallied and the next chunk of the batch, or the first chunk of the next
\* batch, is started, or the loop ends.
resumeParallel(r, engine, options, messages) ==
  LET r1 == [r EXCEPT !.results = tallyParallel(@, messages, Head(r.chunks), r.settled),
                      !.settled = <<>>,
                      !.chunks = Tail(@)]
      next == r.i + BatchSizeOf(engine, options)
  IN IF r1.chunks # <<>>
     THEN startChunk(r1, messages, Head(r1.chunks))
     ELSE IF next < Len(messages)
     THEN startChunk([r1 EXCEPT !.i = next,
                                !.chunks = ChunksAt(engine, options, messages, next)],
                     messages, Head(ChunksAt(engine, options, messages, next)))
     ELSE [r1 EXCEPT !.pc = "done", !.i = next]

EngineConfigs ==
  [mode : {"sequential", "parallel"}, batchSize : 0..MaxBatch,
   maxConcurrency : 0..MaxConc]

\* The options of a processMessages call: none, or one of the two given.
EngineOptions ==
  { [batchSize |-> 0, maxConcurrency |-> 0],
    [batchSize |-> 2, maxConcurrency |-> 0],
    [batchSize |-> 0, maxConcurrency |-> 1] }

InitEngineIdle ==
  /\ pe = NewProcessingEngine([mode |-> "sequential", batchSize |-> 0,
                               maxConcurrency |-> 0])
  /\ peMsgs = <<>>
  /\ peOpts = [batchSize |-> 0, maxConcurrency |-> 0]
  /\ run = IdleRun
  /\ fed = 0
  /\ sinceReset = NoneHandled

InitEngineVars ==
  /\ \E config \in EngineConfigs : pe = NewProcessingEngine(config)
  /\ peMsgs = <<>>
  /\ peOpts = [batchSize |-> 0, maxConcurrency |-> 0]
  /\ run = IdleRun
  /\ fed = 0
  /\ sinceReset = NoneHandled

\* ========================================================= MessageConsumer

\* The options a consumer is constructed with (0: option left out).
ConsumerConfigs ==
  [processingMode : {"sequential", "parallel"}, batchSize : 0..MaxBatch,
   throttleDelayMs : {0, 1}, pollingInterval : {0}]
  \cup [processingMode : {"sequential", "parallel"}, batchSize : {0},
        throttleDelayMs : {0}, pollingInterval : {250}]

\* constructor(sqsClient, queueUrl, options): the options with their defaults,
\* the engine made from them, not running, no handler, no health monitor.
NewMessageConsumer(options) ==
  [ options        |-> [processingMode  |-> options.processingMode,
                        batchSize       |-> IF options.batchSize # 0
                                            THEN options.batchSize ELSE DefaultBatchSize,
                        throttleDelayMs |-> options.throttleDelayMs,
                        pollingInterval |-> IF options.pollingInterval # 0
                                            THEN options.pollingInterval
                                            ELSE DefaultPollingInterval,
                        maxMessages     |-> DefaultMaxMessages],
    isRunning      |-> FALSE,
    messageHandler |-> "null",
    healthMonitor  |-> FALSE ]

\* The engine the constructor makes: mode and batchSize from the options,
\* maxConcurrency left out.
EngineOfConsumer(consumer) ==
  NewProcessingEngine([mode |-> consumer.options.processingMode,
                       batchSize |-> consumer.options.batchSize,
                       maxConcurrency |-> 0])

\* The options _consumeLoop passes to processMessages: batchSize is among
\* them, maxConcurrency is not.
OptionsOfConsumer(consumer) ==
  [batchSize |-> consumer.options.batchSize, maxConcurrency |-> 0]

\* A filter that lets only the first message through.
toDelete_firstOnly(messages, results) ==
  { messages[k].ReceiptHandle : k \in { j \in 1..Len(messages) :
      results.successful > 0 /\ j = 1 } }

\* _deleteProcessedMessages(messages, results): the receipt handles that pass
\* the filter, each of which _deleteMessage is called for.  The filter tests
\* results.successful > 0, the same for every message.
toDelete(messages, results) ==
  { messages[k].ReceiptHandle : k \in { j \in 1..Len(messages) :
      results.successful > 0 } }

\* _deleteProcessedMessages(messages, results): the _deleteMessage calls made
\* by the map over the filtered messages, in order, one per message that
\* passes the filter.
deleteProcessedMessages(messages, results) ==
  SelectSeq([k \in 1..Len(messages) |-> messages[k].ReceiptHandle],
            LAMBDA handle : handle \in toDelete(messages, results))

\* _updateHealthMonitor(results): one recordSuccess if successful > 0, one
\* recordFailure per errors[] entry if failed > 0.
updateHealthMonitor(monitor, results) ==
  [ successes |-> monitor.successes + (IF results.successful > 0 THEN 1 ELSE 0),
    failures  |-> monitor.failures
                  + (IF results.failed > 0 THEN Len(results.errors) ELSE 0) ]

\* A value is callable: typeof value === 'function'.
isFunction(value) == value = "fn"

\* start(handler) that stores the handler and sets isRunning before testing
\* the handler.
start_storesFirst(consumer, messageHandler) ==
  [ mc    |-> [consumer EXCEPT !.messageHandler = messageHandler, !.isRunning = TRUE],
    threw |-> messageHandler = "null" \/ ~isFunction(messageHandler) ]

\* start(messageHandler) up to the call of _consumeLoop: the consumer after
\* it and whether it threw 'Message handler is required and must be a
\* function' (in which case _consumeLoop is not called).
start(consumer, messageHandler) ==
  IF messageHandler = "null" \/ ~isFunction(messageHandler)
  THEN [mc |-> consumer, threw |-> TRUE]
  ELSE [mc |-> [consumer EXCEPT !.messageHandler = messageHandler, !.isRunning = TRUE],
        threw |-> FALSE]

\* The handlers start is called with: a function, null (or nothing), a
\* string.
Handlers == {"fn", "null", "string"}

NoStartCall ==
  [handler |-> "none", threw |-> FALSE, unchanged |-> TRUE, began |-> FALSE]

\* No stop() since the last start().
NoStopCall == [called |-> FALSE, at |-> "none", received |-> FALSE]

\* The stop() history when the loop has come to pc: a receive issued after a
\* stop() is noted.
noteReceive(history, pc) ==
  IF history.called /\ pc = "receive" THEN [history EXCEPT !.received = TRUE]
  ELSE history

\* No _consumeLoop call has been made.
NoLoops == [l \in 1..MaxLoops |-> "none"]

InitConsumerIdle ==
  /\ mc = NewMessageConsumer([processingMode |-> "sequential", batchSize |-> 0,
                              throttleDelayMs |-> 0, pollingInterval |-> 0])
  /\ loopPc = "none"
  /\ pendingDeletes = {}
  /\ deleted = {}
  /\ threwEver = {}
  /\ hm = [successes |-> 0, failures |-> 0]
  /\ startCall = NoStartCall
  /\ stopCall = NoStopCall
  /\ sleepMs = NULL
  /\ deleteCalls = <<>>
  /\ deleteFailed = FALSE
  /\ loops = NoLoops

InitConsumerVars ==
  /\ \E options \in ConsumerConfigs :
       /\ mc = NewMessageConsumer(options)
       /\ pe = EngineOfConsumer(NewMessageConsumer(options))
  /\ peMsgs = <<>>
  /\ peOpts = [batchSize |-> 0, maxConcurrency |-> 0]
  /\ run = IdleRun
  /\ fed = 0
  /\ sinceReset = NoneHandled
  /\ loopPc = "none"
  /\ pendingDeletes = {}
  /\ deleted = {}
  /\ threwEver = {}
  /\ hm = [successes |-> 0, failures |-> 0]
  /\ startCall = NoStartCall
  /\ stopCall = NoStopCall
  /\ sleepMs = NULL
  /\ deleteCalls = <<>>
  /\ deleteFailed = FALSE
  /\ loops = NoLoops

\* =============================================================== SQSClient

\* The callers of executeCommand that may have a command in progress at the
\* same time.
Commands == {"a", "b"}

\* The error names the shouldRetry option of executeCommand retries on.
TransientNames ==
  {"ThrottlingException", "ServiceUnavailableException", "InternalServerError",
   "NetworkingError", "TimeoutError"}

\* The error names awsClient.send() rejects with here: two of the transient
\* names and one other name.
ErrorNames == {"ThrottlingException", "TimeoutError", "ValidationError"}

\* The message of the error thrown when the breaker denies execution.
CircuitOpenError == "Circuit breaker is open - operation not allowed"

\* The shouldRetry option with the name test left out.
shouldRetry_always(error) == TRUE

\* The shouldRetry option executeCommand passes to executeWithRetry.
shouldRetry(error) == error \in TransientNames

\* The options executeCommand passes: shouldRetry, onRetry and onFailure.
CommandOptions == [shouldRetry |-> "given", hooks |-> TRUE]

\* The breaker test at the start of executeCommand that lets every call pass.
admits_always(b, t) == [cb |-> canExecute(b, t).cb, ret |-> TRUE]

\* The breaker test at the start of executeCommand: the breaker after
\* canExecute() and whether the command goes on.
admits(b, t) == canExecute(b, t)

\* executeFn after awsClient.send() has settled with `outcome` ("ok" or an
\* error name): the breaker after the recording and the recording made.
executeFn(b, t, outcome) ==
  IF outcome = "ok"
  THEN [cb |-> recordSuccess(b), call |-> "recordSuccess"]
  ELSE [cb |-> recordFailure(b, t), call |-> "recordFailure"]

\* No executeCommand call of this caller yet.
IdleCommand ==
  [ pc |-> "idle", attempt |-> 0, lastError |-> "none", out |-> NoOutcome,
    sends |-> 0, sleeps |-> 0, okSends |-> 0, failedSends |-> 0,
    recordedSuccess |-> 0, recordedFailure |-> 0,
    allowed |-> TRUE, deniedIn |-> "none", countersKept |-> TRUE ]

\* The options an SQSClient is constructed with: config.circuitBreaker and
\* config.retry (0: option left out).
ClientConfigs ==
  [ failureThreshold : 1..(MaxThreshold - 1),
    timeout          : {MaxTimeout - 1},
    maxRetries       : 0..(MaxRetriesCfg - 2) ]

InitClientIdle ==
  /\ cmds = [c \in Commands |-> IdleCommand]
  /\ sent = 0

\* constructor(config): a breaker and a retry manager made from the config.
InitClientVars ==
  /\ \E config \in ClientConfigs :
       /\ cb = NewCircuitBreaker([failureThreshold |-> config.failureThreshold,
                                  timeout |-> config.timeout])
       /\ rm = NewRetryManager([maxRetries |-> config.maxRetries,
                                backoffMultiplier |-> NoMultiplier,
                                maxBackoffMs |-> 0, initialDelayMs |-> 0])
  /\ now = 0
  /\ cbOp = "new"
  /\ cbRet = TRUE
  /\ cbPre = cb
  /\ onlyFailures = TRUE
  /\ halfSucc = NULL
  /\ failuresRecorded = 0
  /\ rtFn = "executeWithRetry"
  /\ rtPc = "idle"
  /\ rtOpts = [shouldRetry |-> "none", hooks |-> FALSE]
  /\ attempt = 0
  /\ calls = 0
  /\ delays = <<>>
  /\ onRetryLog = <<>>
  /\ onFailureLog = <<>>
  /\ refused = FALSE
  /\ lastError = NULL
  /\ attempts = <<>>
  /\ rtOut = NoOutcome
  /\ cmds = [c \in Commands |-> IdleCommand]
  /\ sent = 0

\* ==================================================== DeduplicationManager

\* The keys isDuplicate is called with directly.
Keys == {"k1", "k2"}

\* new Map()
EmptyCache == [id \in {} |-> 0]

\* constructor(config): cacheExpiry is not read from the config.
NewDeduplicationManager(config) ==
  [ strategy           |-> IF config.strategy # "none" THEN config.strategy ELSE "content",
    deduplicationCache |-> EmptyCache,
    cacheExpiry        |-> DefaultCacheExpiry ]

\* The cache without the entries the cleaning loop of isDuplicate deletes.
cleanExpired(cache, expiry, t) ==
  [id \in {i \in DOMAIN cache : ~(t - cache[i] > expiry)} |-> cache[id]]

\* isDuplicate(id) with the expiry test written `>=`.
isDuplicate_inclusiveExpiry(d, id, t) ==
  LET cleaned == [i \in {j \in DOMAIN d.deduplicationCache :
                           ~(t - d.deduplicationCache[j] >= d.cacheExpiry)}
                    |-> d.deduplicationCache[i]]
  IN IF id \in DOMAIN cleaned
     THEN [dd |-> [d EXCEPT !.deduplicationCache = cleaned], ret |-> TRUE]
     ELSE [dd |-> [d EXCEPT !.deduplicationCache = (id :> t) @@ cleaned], ret |-> FALSE]

\* isDuplicate(id) that stamps the key anew when it reports a duplicate.
isDuplicate_refreshesOnHit(d, id, t) ==
  LET cleaned == cleanExpired(d.deduplicationCache, d.cacheExpiry, t) IN
  [dd |-> [d EXCEPT !.deduplicationCache = (id :> t) @@ cleaned],
   ret |-> id \in DOMAIN cleaned]

\* isDuplicate(id) at time t: the manager after the call and the value
\* returned.
isDuplicate(d, id, t) ==
  LET cleaned == cleanExpired(d.deduplicationCache, d.cacheExpiry, t) IN
  IF id \in DOMAIN cleaned
  THEN [dd |-> [d EXCEPT !.deduplicationCache = cleaned], ret |-> TRUE]
  ELSE [dd |-> [d EXCEPT !.deduplicationCache = (id :> t) @@ cleaned], ret |-> FALSE]

\* clearCache()
clearCache(d) == [d EXCEPT !.deduplicationCache = EmptyCache]

\* updateConfig({cacheExpiry: x}) of the DeduplicationManager (0 is ignored).
updateDedupConfig(d, x) == IF x # 0 THEN [d EXCEPT !.cacheExpiry = x] ELSE d

NoDedupCall == [key |-> "none", at |-> 0, expiry |-> 0, ret |-> FALSE, prior |-> NULL]

InitDedupIdle ==
  /\ dd = NewDeduplicationManager([strategy |-> "none"])
  /\ ddCall = NoDedupCall
  /\ insertedAt = [k \in Keys |-> NULL]

\* ======================================================== MessagePublisher

\* The message bodies published: objects with one property.
Bodies == { [type |-> "order"], [type |-> "invoice"] }

\* The options of a publish call: messageGroupId and messageDeduplicationId,
\* none given or one of them.
PublishOptions ==
  { [messageGroupId |-> "undefined", messageDeduplicationId |-> "undefined"],
    [messageGroupId |-> "g1", messageDeduplicationId |-> "undefined"],
    [messageGroupId |-> "undefined", messageDeduplicationId |-> "d1"] }

\* The properties of an object that JSON.stringify(value, replacer) writes
\* when the replacer is an array of names: those named in it, at every level
\* of nesting.
project(object, replacer) ==
  [k \in (DOMAIN object) \cap replacer |-> object[k]]

\* _hashString(str): the digest of str (distinct strings are taken to have
\* distinct digests).
hashString(str) == <<"sha256", str>>

\* _hashObject(obj) for the contentForHash object of _generateContentBasedId:
\* JSON.stringify(obj, Object.keys(obj).sort()) writes obj.body with the
\* replacer applied to it, too.
hashObject(obj) ==
  hashString([body      |-> project(obj.body, DOMAIN obj),
              groupId   |-> obj.groupId,
              timestamp |-> obj.timestamp])

\* _generateContentBasedId(messageBody, options) at time t
generateContentBasedId(messageBody, options, t) ==
  hashObject([body |-> messageBody, groupId |-> options.messageGroupId,
              timestamp |-> t])

\* _generateTimestampBasedId() at time t
generateTimestampBasedId(t) == hashString(<<"timestamp", t>>)

\* _generateHybridId(messageBody, options) at time t: here _hashObject gets
\* the body itself, whose own property names are the replacer.
generateHybridId(messageBody, options, t) ==
  hashString(<<"hybrid", hashString(project(messageBody, DOMAIN messageBody)), t,
               IF options.messageGroupId # "undefined"
               THEN options.messageGroupId ELSE "default">>)

\* generateDeduplicationId(messageBody, options) of the manager (publish
\* passes no customId).
generateDeduplicationId(d, messageBody, options, t) ==
  IF d.strategy = "content" THEN generateContentBasedId(messageBody, options, t)
  ELSE IF d.strategy = "timestamp" THEN generateTimestampBasedId(t)
  ELSE IF d.strategy = "hybrid" THEN generateHybridId(messageBody, options, t)
  ELSE generateContentBasedId(messageBody, options, t)

\* _generateDeduplicationId(messageBody, options) of the publisher; n numbers
\* the uuidv4() calls, each of which returns a new id.
publisherDeduplicationId(p, d, messageBody, options, t, n) ==
  IF options.messageDeduplicationId # "undefined"
  THEN <<"given", options.messageDeduplicationId>>
  ELSE IF p.fifo THEN generateDeduplicationId(d, messageBody, options, t)
  ELSE <<"uuid", n>>

\* The duplicate test of publish: isDuplicate is called only with
\* deduplication enabled.
checkDuplicate(p, d, id, t) ==
  IF p.enableDeduplication THEN isDuplicate(d, id, t) ELSE [dd |-> d, ret |-> FALSE]

\* What publish returns for a call that has ended.
publishResult(call) ==
  IF call.pc = "sent" THEN [success |-> TRUE, error |-> "none"]
  ELSE IF call.pc = "duplicate"
  THEN [success |-> FALSE, error |-> "Duplicate message detected"]
  ELSE [success |-> FALSE, error |-> "send failed"]

\* publish(messageBody, options) at time t up to its first await, for a body
\* and options that pass the validation: the deduplication id is made, the
\* duplicate test is made and either throws 'Duplicate message detected',
\* which the catch block turns into the result, or the command is built and
\* executeCommand is called. n numbers the call.
publish(p, d, messageBody, options, t, n) ==
  LET id == publisherDeduplicationId(p, d, messageBody, options, t, n)
      check == checkDuplicate(p, d, id, t)
  IN [ dd   |-> check.dd,
       call |-> [body |-> messageBody, options |-> options, at |-> t, id |-> id,
                 pc |-> IF check.ret THEN "duplicate" ELSE "sending"] ]

\* batch.map(message => this.publish(message.body, message.options || {})):
\* the publish calls of one batch are started one after the other, at the
\* same time t, each up to its first await.
RECURSIVE publishAll(_, _, _, _, _)
publishAll(p, d, log, batch, t) ==
  IF batch = <<>> THEN [dd |-> d, log |-> log]
  ELSE LET first == publish(p, d, Head(batch).body, Head(batch).options, t, Len(log) + 1)
       IN publishAll(p, first.dd, Append(log, first.call), Tail(batch), t)

\* No publishBatch() call is in progress.
IdleBatch ==
  [pc |-> "idle", batchSize |-> 0, rest |-> <<>>, awaited |-> {}, results |-> <<>>]

\* messages.slice(i, i + batchSize), i counted from 0
batchSlice(messages, i, batchSize) ==
  SubSeq(messages, i + 1, IF i + batchSize < Len(messages) THEN i + batchSize
                          ELSE Len(messages))

\* batchResults.forEach(...): the results of the publish calls awaited (calls
\* first .. first + n - 1 of the log), in the order the calls were made.
settledResults(log, awaited) ==
  LET first == CHOOSE k \in awaited : \A other \in awaited : k <= other
  IN [k \in 1..Cardinality(awaited) |-> publishResult(log[first + k - 1])]

\* The messages publishBatch is called with: one or two messages, each a body
\* with options.
BatchInputs(n) ==
  UNION { [1..k -> [body : Bodies, options : PublishOptions]] : k \in 1..n }

\* The options (and the kind of queue URL) a publisher is constructed with:
\* a FIFO queue with each strategy, one with deduplication disabled, and a
\* standard queue.
PublisherConfigs ==
  { [fifo |-> TRUE, enableDeduplication |-> TRUE, deduplicationStrategy |-> "none"],
    [fifo |-> TRUE, enableDeduplication |-> TRUE, deduplicationStrategy |-> "timestamp"],
    [fifo |-> TRUE, enableDeduplication |-> TRUE, deduplicationStrategy |-> "hybrid"],
    [fifo |-> TRUE, enableDeduplication |-> FALSE, deduplicationStrategy |-> "none"],
    [fifo |-> FALSE, enableDeduplication |-> TRUE, deduplicationStrategy |-> "none"] }

\* constructor(sqsClient, queueUrl, options)
NewMessagePublisher(options) ==
  [fifo |-> options.fifo, enableDeduplication |-> options.enableDeduplication]

InitPublisherIdle ==
  /\ pub = NewMessagePublisher([fifo |-> FALSE, enableDeduplication |-> TRUE])
  /\ pubLog = <<>>
  /\ pubBatch = IdleBatch

InitPublisherVars ==
  /\ \E options \in PublisherConfigs :
       /\ pub = NewMessagePublisher(options)
       /\ dd = NewDeduplicationManager([strategy |-> options.deduplicationStrategy])
  /\ ddCall = NoDedupCall
  /\ insertedAt = [k \in Keys |-> NULL]
  /\ pubLog = <<>>
  /\ pubBatch = IdleBatch

\* ------------------------------------------------ RetryManager behaviour

InitRetry ==
  InitRetryVars /\ InitBreakerIdle /\ InitEngineIdle /\ InitConsumerIdle /\ InitClientIdle
  /\ InitDedupIdle /\ InitPublisherIdle

\* updateConfig({maxRetries: k}) between two calls.
CallUpdateConfig ==
  /\ rtPc = "idle"
  /\ \E k \in 0..MaxRetriesCfg :
       rm' = updateConfig(rm, [maxRetries |-> k, backoffMultiplier |-> NULL,
                               maxBackoffMs |-> NULL, initialDelayMs |-> NULL])
  /\ UNCHANGED <<rtFn, rtPc, rtOpts, attempt, calls, delays, onRetryLog, onFailureLog,
                 refused, lastError, attempts, rtOut>>
  /\ UNCHANGED <<cbVars, peVars, mcVars, sqVars, ddVars, pbVars>>

\* The locals of a call as the for loop is entered: attempt 0, fn invoked once.
EnterLoop ==
  /\ attempt' = 0
  /\ calls' = 1
  /\ delays' = <<>>
  /\ onRetryLog' = <<>>
  /\ onFailureLog' = <<>>
  /\ refused' = FALSE
  /\ lastError' = NULL
  /\ attempts' = <<>>
  /\ rtOut' = NoOutcome
  /\ rtPc' = "awaitFn"

\* executeWithRetry(fn, options) is called: the loop is entered with attempt 0
\* and fn is invoked.
CallExecuteWithRetry ==
  /\ rtPc = "idle"
  /\ rm.maxRetries >= 0
  /\ \E opts \in RetryOptions : rtOpts' = opts
  /\ rtFn' = "executeWithRetry"
  /\ EnterLoop
  /\ UNCHANGED <<rm>>
  /\ UNCHANGED <<cbVars, peVars, mcVars, sqVars, ddVars, pbVars>>

\* The end of executeWithRetry after the loop: onFailure(lastError,
\* maxRetries + 1) if the hook is given, then throw lastError.
onFailureCalls(r, opts, log) ==
  IF opts.hooks THEN Append(log, r.maxRetries + 1) ELSE log

\* The try block of executeWithRetry when fn() has resolved: the result is
\* returned.
TryReturns ==
  /\ rtOut' = Returns(calls)
  /\ rtPc' = "returned"
  /\ UNCHANGED <<rm, rtFn, rtOpts, attempt, calls, delays, onRetryLog, onFailureLog,
                 refused, lastError, attempts>>

\* The catch block of executeWithRetry when fn() has rejected and
\* shouldRetry(error), if given, answers `answer`: either the delay is
\* computed, onRetry called and the sleep started, or the loop is left,
\* onFailure called and lastError thrown.
CatchBlock(answer) ==
  /\ lastError' = calls
  /\ refused' = (rtOpts.shouldRetry = "given" /\ attempt < rm.maxRetries /\ ~answer)
  /\ IF willRetry(rm, attempt, rtOpts, answer)
     THEN /\ delays' = Append(delays, calculateDelay(rm, attempt))
          /\ onRetryLog' = IF rtOpts.hooks
                           THEN Append(onRetryLog,
                                       <<attempt + 1, calculateDelay(rm, attempt)>>)
                           ELSE onRetryLog
          /\ rtPc' = "sleeping"
          /\ UNCHANGED <<onFailureLog, rtOut>>
     ELSE /\ onFailureLog' = onFailureCalls(rm, rtOpts, onFailureLog)
          /\ rtOut' = Throws(lastError')
          /\ rtPc' = "thrown"
          /\ UNCHANGED <<delays, onRetryLog>>
  /\ UNCHANGED <<rm, rtFn, rtOpts, attempt, calls, attempts>>

\* The sleep of executeWithRetry ends: attempt++, and while
\* attempt <= maxRetries fn is invoked again; otherwise the loop is left,
\* onFailure is called and lastError thrown.
AfterSleep ==
  /\ attempt' = attempt + 1
  /\ IF attempt + 1 <= rm.maxRetries
     THEN /\ calls' = calls + 1
          /\ rtPc' = "awaitFn"
          /\ UNCHANGED <<onFailureLog, rtOut>>
     ELSE /\ onFailureLog' = onFailureCalls(rm, rtOpts, onFailureLog)
          /\ rtOut' = Throws(lastError)
          /\ rtPc' = "thrown"
          /\ UNCHANGED calls
  /\ UNCHANGED <<rm, rtFn, rtOpts, delays, onRetryLog, refused, lastError, attempts>>

\* fn() resolves: executeWithRetry returns its result.
FnResolves ==
  /\ rtFn = "executeWithRetry"
  /\ rtPc = "awaitFn"
  /\ TryReturns
  /\ UNCHANGED <<cbVars, peVars, mcVars, sqVars, ddVars, pbVars>>

\* fn() rejects: the catch block of executeWithRetry runs.
FnRejects ==
  /\ rtFn = "executeWithRetry"
  /\ rtPc = "awaitFn"
  /\ \E answer \in BOOLEAN :
       /\ rtOpts.shouldRetry = "none" => answer
       /\ CatchBlock(answer)
  /\ UNCHANGED <<cbVars, peVars, mcVars, sqVars, ddVars, pbVars>>

\* The sleep ends.
SleepEnds ==
  /\ rtFn = "executeWithRetry"
  /\ rtPc = "sleeping"
  /\ AfterSleep
  /\ UNCHANGED <<cbVars, peVars, mcVars, sqVars, ddVars, pbVars>>

\* executeWithRetryDetailed(fn, options) is called: the options are not read;
\* the loop is entered with attempt 0 and fn is invoked.
CallExecuteWithRetryDetailed ==
  /\ rtPc = "idle"
  /\ rm.maxRetries >= 0
  /\ rtOpts' = [shouldRetry |-> "none", hooks |-> FALSE]
  /\ rtFn' = "executeWithRetryDetailed"
  /\ EnterLoop
  /\ UNCHANGED <<rm>>
  /\ UNCHANGED <<cbVars, peVars, mcVars, sqVars, ddVars, pbVars>>

\* The entry executeWithRetryDetailed pushes to attempts[] for one attempt
\* (duration is a wall-clock value and is left out).
AttemptEntry(a, success, error) ==
  [attempt |-> a + 1, success |-> success, error |-> error]

\* The record executeWithRetryDetailed returns from its try block.
SuccessRecord(value, list, a) ==
  [success |-> TRUE, result |-> value, attempts |-> list, retryCount |-> a,
   error |-> NULL]

\* The record executeWithRetryDetailed returns after its loop.
FailureRecord(r, list, error) ==
  [success |-> FALSE, result |-> NULL, attempts |-> list,
   retryCount |-> r.maxRetries + 1, error |-> error]

\* fn() resolves in executeWithRetryDetailed: the attempt is pushed and the
\* success record returned.
DetailedFnResolves ==
  /\ rtFn = "executeWithRetryDetailed"
  /\ rtPc = "awaitFn"
  /\ attempts' = Append(attempts, AttemptEntry(attempt, TRUE, NULL))
  /\ rtOut' = Returns(SuccessRecord(calls, attempts', attempt))
  /\ rtPc' = "returned"
  /\ UNCHANGED <<rm, rtFn, rtOpts, attempt, calls, delays, onRetryLog, onFailureLog,
                 refused, lastError>>
  /\ UNCHANGED <<cbVars, peVars, mcVars, sqVars, ddVars, pbVars>>

\* fn() rejects in executeWithRetryDetailed: the attempt is pushed; while
\* attempt < maxRetries the sleep is started, otherwise attempt++ ends the
\* loop and the failure record is returned.
DetailedFnRejects ==
  /\ rtFn = "executeWithRetryDetailed"
  /\ rtPc = "awaitFn"
  /\ lastError' = calls
  /\ attempts' = Append(attempts, AttemptEntry(attempt, FALSE, calls))
  /\ IF attempt < rm.maxRetries
     THEN /\ delays' = Append(delays, calculateDelay(rm, attempt))
          /\ rtPc' = "sleeping"
          /\ UNCHANGED <<attempt, rtOut>>
     ELSE /\ attempt' = attempt + 1
          /\ rtOut' = Returns(FailureRecord(rm, attempts', lastError'))
          /\ rtPc' = "returned"
          /\ UNCHANGED delays
  /\ UNCHANGED <<rm, rtFn, rtOpts, calls, onRetryLog, onFailureLog, refused>>
  /\ UNCHANGED <<cbVars, peVars, mcVars, sqVars, ddVars, pbVars>>

\* The sleep of executeWithRetryDetailed ends: attempt++, and while
\* attempt <= maxRetries fn is invoked again; otherwise the failure record is
\* returned.
DetailedSleepEnds ==
  /\ rtFn = "executeWithRetryDetailed"
  /\ rtPc = "sleeping"
  /\ attempt' = attempt + 1
  /\ IF attempt + 1 <= rm.maxRetries
     THEN /\ calls' = calls + 1
          /\ rtPc' = "awaitFn"
          /\ UNCHANGED rtOut
     ELSE /\ rtOut' = Returns(FailureRecord(rm, attempts, lastError))
          /\ rtPc' = "returned"
          /\ UNCHANGED calls
  /\ UNCHANGED <<rm, rtFn, rtOpts, delays, onRetryLog, onFailureLog, refused,
                 lastError, attempts>>
  /\ UNCHANGED <<cbVars, peVars, mcVars, sqVars, ddVars, pbVars>>

\* The caller has the result (or the error) and may call again.
CallSettled ==
  /\ rtPc \in {"returned", "thrown"}
  /\ rtPc' = "idle"
  /\ UNCHANGED <<rm, rtFn, rtOpts, attempt, calls, delays, onRetryLog, onFailureLog,
                 refused, lastError, attempts, rtOut>>
  /\ UNCHANGED <<cbVars, peVars, mcVars, sqVars, ddVars, pbVars>>

NextRetry ==
  \/ CallUpdateConfig
  \/ CallExecuteWithRetry
  \/ FnResolves
  \/ FnRejects
  \/ SleepEnds
  \/ CallExecuteWithRetryDetailed
  \/ DetailedFnResolves
  \/ DetailedFnRejects
  \/ DetailedSleepEnds
  \/ CallSettled

SpecRetry == InitRetry /\ [][NextRetry]_vars

\* --------------------------------------------------- RetryManager claims

Min(a, b) == IF a <= b THEN a ELSE b

\* min(initialDelayMs * backoffMultiplier^i, maxBackoffMs), scaled by d^i to
\* stay in the integers (the multiplier is n/d).
ScaledBackoff(r, i) ==
  Min(r.initialDelayMs * Pow(r.backoffMultiplier.n, i),
      r.maxBackoffMs * Pow(r.backoffMultiplier.d, i))

\* An executeWithRetry call with the default shouldRetry has failed on every
\* attempt and thrown.
ExhaustedByDefault == rtPc = "thrown" /\ rtOpts.shouldRetry = "none"

\* C9 as stated: a call that fails on every attempt (default shouldRetry) makes
\* maxRetries + 1 invocations and throws, and the delay slept after failed
\* attempt i equals min(initialDelayMs * backoffMultiplier^i, maxBackoffMs)
\* exactly.
C9_Original ==
  /\ ExhaustedByDefault
       => calls = rm.maxRetries + 1 /\ Len(delays) = rm.maxRetries
  /\ (rtPc # "idle" /\ rtOpts.shouldRetry = "none") =>
       \A i \in 0..(Len(delays) - 1) :
         delays[i + 1] * Pow(rm.backoffMultiplier.d, i) = ScaledBackoff(rm, i)

\* C9 amended: as C9, with the delay equal to the floor of
\* min(initialDelayMs * backoffMultiplier^i, maxBackoffMs): the integer k with
\* k <= min(...) < k + 1.
C9_FloorDelays ==
  /\ ExhaustedByDefault
       => calls = rm.maxRetries + 1 /\ Len(delays) = rm.maxRetries
  /\ (rtPc # "idle" /\ rtOpts.shouldRetry = "none") =>
       \A i \in 0..(Len(delays) - 1) :
         /\ delays[i + 1] * Pow(rm.backoffMultiplier.d, i) <= ScaledBackoff(rm, i)
         /\ ScaledBackoff(rm, i) < (delays[i + 1] + 1) * Pow(rm.backoffMultiplier.d, i)

\* C9 witness: every attempt failed with maxRetries 4, multiplier 1.5, initial
\* delay 100: five invocations, and the delay after the fourth failure is 337
\* (min(...) = 337.5).
C9_Witness ==
  /\ ExhaustedByDefault
  /\ rm.maxRetries = 4
  /\ calls = 5
  /\ rm.backoffMultiplier = Rat(3, 2)
  /\ rm.initialDelayMs = 100
  /\ rm.maxBackoffMs = 1000
  /\ delays = <<100, 150, 225, 337>>

\* The policy of scenario 2: maxRetries 3, initialDelayMs 100,
\* backoffMultiplier 2, maxBackoffMs 1000.
Scenario2 ==
  rm = [maxRetries |-> 3, backoffMultiplier |-> Rat(2, 1),
        maxBackoffMs |-> 1000, initialDelayMs |-> 100]

\* C10 as stated: under the policy of scenario 2 an operation that always
\* throws is invoked exactly 4 times and the delays slept are 100, 200, 400,
\* 800.
C10_Original ==
  (Scenario2 /\ ExhaustedByDefault) =>
    calls = 4 /\ delays = <<100, 200, 400, 800>>

\* C10 amended: under the policy of scenario 2 an operation that always throws
\* is invoked exactly 4 times and the delays slept are 100, 200, 400 (no sleep
\* follows the last attempt).
C10_ThreeDelays ==
  (Scenario2 /\ ExhaustedByDefault) =>
    calls = 4 /\ delays = <<100, 200, 400>>

\* C10 witness: the call of scenario 2 has thrown after four failed attempts.
C10_Witness ==
  /\ Scenario2
  /\ ExhaustedByDefault
  /\ attempt = 3
  /\ calls = 4

\* C11: when shouldRetry(error) returns false for a failed attempt of
\* executeWithRetry, no further attempt and no backoff sleep is made: fn has
\* been invoked once more than the number of retries made so far, one sleep
\* was made per retry, onFailure (if given) is invoked once, and the error of
\* that attempt is thrown.
C11_ShouldRetryRefuses ==
  refused =>
    /\ rtPc \in {"thrown", "idle"}
    /\ calls = attempt + 1
    /\ Len(delays) = attempt
    /\ rtOpts.hooks => Len(onFailureLog) = 1
    /\ Len(onRetryLog) = (IF rtOpts.hooks THEN attempt ELSE 0)
    /\ rtOut = Throws(calls)

\* C11 witness: shouldRetry returned true twice and false for the third failed
\* attempt; the call has thrown the third error after three invocations.
C11_Witness ==
  /\ refused
  /\ rtPc = "thrown"
  /\ rtOpts.hooks
  /\ calls = 3
  /\ Len(delays) = 2
  /\ Len(onFailureLog) = 1
  /\ rtOut = Throws(3)

\* C12: with the default shouldRetry, when fn fails on its first k-1 attempts
\* and succeeds on attempt k (1 <= k <= maxRetries + 1), executeWithRetry
\* returns the result of attempt k, fn has been invoked exactly k times (one
\* sleep after each of the k-1 failures) and onFailure is never invoked; the
\* call gives up only after maxRetries + 1 failed attempts, so every such k
\* is reached.
C12_SucceedsOnAttemptK ==
  /\ (rtFn = "executeWithRetry" /\ rtPc = "returned" /\ rtOpts.shouldRetry = "none") =>
       /\ rtOut = Returns(calls)
       /\ calls = attempt + 1
       /\ calls <= rm.maxRetries + 1
       /\ Len(delays) = calls - 1
       /\ lastError = (IF calls = 1 THEN NULL ELSE calls - 1)
       /\ onFailureLog = <<>>
  /\ (rtFn = "executeWithRetry" /\ ExhaustedByDefault) => calls = rm.maxRetries + 1

\* C12 witness: maxRetries 3, fn failed twice and succeeded on attempt 3; the
\* call returned that result, with the hooks given.
C12_Witness ==
  /\ rtFn = "executeWithRetry"
  /\ rtPc = "returned"
  /\ rtOpts = [shouldRetry |-> "none", hooks |-> TRUE]
  /\ rm.maxRetries = 3
  /\ calls = 3
  /\ lastError = 2
  /\ rtOut = Returns(3)
  /\ onFailureLog = <<>>

\* C24: whenever executeWithRetry invokes onFailure(error, totalAttempts),
\* totalAttempts equals the number of times fn was invoked in that call, when
\* the attempts are exhausted and when shouldRetry returned false early.
C24_OnFailureCountsAttempts ==
  (rtFn = "executeWithRetry" /\ rtPc = "thrown" /\ rtOpts.hooks) =>
    onFailureLog = <<calls>>

\* An executeWithRetryDetailed call has settled.
DetailedSettled ==
  rtFn = "executeWithRetryDetailed" /\ rtPc \in {"returned", "thrown"}

\* C13: executeWithRetryDetailed never throws; the record it returns has one
\* attempts[] entry per invocation of fn and a retryCount equal to the number
\* of attempts made, on success (a first-attempt success gives retryCount 1
\* with 1 attempt) and on exhaustion (maxRetries 3 gives retryCount 4 with 4
\* attempts, success false, result null).
C13_DetailedRecord ==
  DetailedSettled =>
    /\ rtPc = "returned"
    /\ Len(rtOut.value.attempts) = calls
    /\ rtOut.value.retryCount = calls
    /\ ~rtOut.value.success => rtOut.value.result = NULL

\* ---------------------------------------------- CircuitBreaker behaviour

InitBreaker ==
  InitBreakerVars /\ InitRetryIdle /\ InitEngineIdle /\ InitConsumerIdle /\ InitClientIdle
  /\ InitDedupIdle /\ InitPublisherIdle

\* Time passes between two calls.
Tick ==
  /\ now < MaxTime
  /\ now' = now + 1
  /\ cbOp' = "tick"
  /\ UNCHANGED <<cb, cbRet, cbPre, onlyFailures, halfSucc, failuresRecorded>>
  /\ UNCHANGED <<rtVars, peVars, mcVars, sqVars, ddVars, pbVars>>

CallCanExecute ==
  /\ cb' = canExecute(cb, now).cb
  /\ cbRet' = canExecute(cb, now).ret
  /\ cbOp' = "canExecute"
  /\ cbPre' = cb
  /\ halfSucc' = IF cb.state = "OPEN" /\ cb'.state = "HALF_OPEN" THEN 0 ELSE halfSucc
  /\ UNCHANGED <<now, onlyFailures, failuresRecorded>>
  /\ UNCHANGED <<rtVars, peVars, mcVars, sqVars, ddVars, pbVars>>

CallRecordSuccess ==
  /\ cb.successCount < MaxCount
  /\ cb' = recordSuccess(cb)
  /\ cbOp' = "recordSuccess"
  /\ cbPre' = cb
  /\ onlyFailures' = FALSE
  /\ halfSucc' = IF halfSucc = NULL \/ halfSucc >= cb.failureThreshold
                 THEN NULL ELSE halfSucc + 1
  /\ UNCHANGED <<now, cbRet, failuresRecorded>>
  /\ UNCHANGED <<rtVars, peVars, mcVars, sqVars, ddVars, pbVars>>

CallRecordFailure ==
  /\ cb.failureCount < MaxCount
  /\ cb' = recordFailure(cb, now)
  /\ cbOp' = "recordFailure"
  /\ cbPre' = cb
  /\ halfSucc' = NULL
  /\ failuresRecorded' = IF failuresRecorded <= cb.failureThreshold
                         THEN failuresRecorded + 1 ELSE failuresRecorded
  /\ UNCHANGED <<now, cbRet, onlyFailures>>
  /\ UNCHANGED <<rtVars, peVars, mcVars, sqVars, ddVars, pbVars>>

CallReset ==
  /\ cb' = reset(cb)
  /\ cbOp' = "reset"
  /\ cbPre' = cb
  /\ onlyFailures' = TRUE
  /\ halfSucc' = NULL
  /\ failuresRecorded' = 0
  /\ UNCHANGED <<now, cbRet>>
  /\ UNCHANGED <<rtVars, peVars, mcVars, sqVars, ddVars, pbVars>>

\* getState(), getFailureCount(), getSuccessCount() or
\* getTimeSinceLastFailure() is called: a field is read, nothing is written.
CallGetter ==
  /\ \E getter \in Getters : cbOp' = getter
  /\ cb' = cb
  /\ cbPre' = cb
  /\ UNCHANGED <<now, cbRet, onlyFailures, halfSucc, failuresRecorded>>
  /\ UNCHANGED <<rtVars, peVars, mcVars, sqVars, ddVars, pbVars>>

\* getStatus() is called: it builds the status object, calling canExecute()
\* for its last property.
CallGetStatus ==
  /\ cb' = getStatus(cb, now).cb
  /\ cbRet' = getStatus(cb, now).ret.canExecute
  /\ cbOp' = "getStatus"
  /\ cbPre' = cb
  /\ halfSucc' = IF cb.state = "OPEN" /\ cb'.state = "HALF_OPEN" THEN 0 ELSE halfSucc
  /\ UNCHANGED <<now, onlyFailures, failuresRecorded>>
  /\ UNCHANGED <<rtVars, peVars, mcVars, sqVars, ddVars, pbVars>>

NextBreaker ==
  \/ Tick
  \/ CallCanExecute
  \/ CallRecordSuccess
  \/ CallRecordFailure
  \/ CallReset
  \/ CallGetter
  \/ CallGetStatus

SpecBreaker == InitBreaker /\ [][NextBreaker]_vars

\* -------------------------------------------- ProcessingEngine behaviour

InitEngine ==
  InitEngineVars /\ InitBreakerIdle /\ InitRetryIdle /\ InitConsumerIdle /\ InitClientIdle
  /\ InitDedupIdle /\ InitPublisherIdle

\* processMessages(messages, handler, options) is called while no call is in
\* progress; a call without messages returns at once (and updates the stats).
CallProcessMessages ==
  /\ run.pc \in {"idle", "done"}
  /\ \E n \in 0..(MaxMsgs - fed) :
       \E messages \in Batches(fed, n), options \in EngineOptions :
         /\ peMsgs' = messages
         /\ peOpts' = options
         /\ run' = beginRun(pe, options, messages)
         /\ fed' = fed + n
         /\ pe' = IF messages = <<>> THEN updateStats(pe, NewResults(messages)) ELSE pe
  /\ UNCHANGED sinceReset
  /\ UNCHANGED <<cbVars, rtVars, mcVars, sqVars, ddVars, pbVars>>

\* The handler invoked for one message returns or throws; the promise of its
\* _processSingleMessage call settles.
HandlerSettles ==
  /\ run.pc \in {"seqAwait", "parAwait"}
  /\ \E idx \in run.inFlight, h \in {"returns", "throws"} :
       run' = [run EXCEPT
                 !.inFlight = @ \ {idx},
                 !.settled = (idx :> processSingleMessage(peMsgs[idx], h)) @@ @,
                 !.threw = IF h = "throws" THEN @ \cup {peMsgs[idx].MessageId} ELSE @]
  /\ UNCHANGED <<pe, peMsgs, peOpts, fed, sinceReset>>
  /\ UNCHANGED <<cbVars, rtVars, mcVars, sqVars, ddVars, pbVars>>

\* Every promise awaited has settled: the loop resumes, tallies, and starts
\* the next message or chunk; after the last one processMessages updates the
\* statistics and returns the results.
EngineResumes ==
  /\ run.pc \in {"seqAwait", "parAwait"}
  /\ run.inFlight = {}
  /\ run' = IF run.pc = "seqAwait"
            THEN resumeSequential(run, peMsgs)
            ELSE resumeParallel(run, pe, peOpts, peMsgs)
  /\ pe' = IF run'.pc = "done" THEN updateStats(pe, run'.results) ELSE pe
  /\ sinceReset' = IF run'.pc = "done" THEN noteHandled(sinceReset, run', peMsgs)
                                      ELSE sinceReset
  /\ UNCHANGED <<peMsgs, peOpts, fed>>
  /\ UNCHANGED <<cbVars, rtVars, mcVars, sqVars, ddVars, pbVars>>

\* resetStats() between two calls.
CallResetStats ==
  /\ run.pc \in {"idle", "done"}
  /\ pe' = resetStats(pe)
  /\ sinceReset' = NoneHandled
  /\ UNCHANGED <<peMsgs, peOpts, run, fed>>
  /\ UNCHANGED <<cbVars, rtVars, mcVars, sqVars, ddVars, pbVars>>

NextEngine ==
  \/ CallProcessMessages
  \/ HandlerSettles
  \/ EngineResumes
  \/ CallResetStats

SpecEngine == InitEngine /\ [][NextEngine]_vars

\* --------------------------------------------- MessageConsumer behaviour

InitConsumer ==
  /\ InitConsumerVars /\ InitBreakerIdle /\ InitRetryIdle /\ InitClientIdle
  /\ InitDedupIdle /\ InitPublisherIdle

\* The top of a loop written `while (true)`: the flag is not read.
LoopTop_ignoresFlag(consumer) == "receive"

\* The top of the while loop of _consumeLoop: the next receive is issued while
\* isRunning, otherwise the loop is left.
LoopTop(consumer) == IF consumer.isRunning THEN "receive" ELSE "exited"

\* start(handler): with a handler that is no function it throws; otherwise
\* the handler is stored, isRunning is set and _consumeLoop is entered, which
\* issues its first receive.  (start() is called here only when no loop of an
\* earlier start() is still alive.)
CallStart ==
  /\ loopPc \in {"none", "exited"}
  /\ \E handler \in Handlers :
       LET call == start(mc, handler) IN
         /\ mc' = call.mc
         /\ loopPc' = IF call.threw THEN loopPc ELSE LoopTop(call.mc)
         /\ startCall' = [handler |-> handler, threw |-> call.threw,
                          unchanged |-> (call.mc = mc /\ loopPc' = loopPc),
                          began |-> /\ call.mc.isRunning
                                    /\ call.mc.messageHandler = handler
                                    /\ loopPc' = "receive"]
         /\ stopCall' = IF call.threw THEN stopCall ELSE NoStopCall
  /\ UNCHANGED <<pendingDeletes, deleted, threwEver, hm, peVars, sleepMs>>
  /\ UNCHANGED <<deleteCalls, deleteFailed, loops>>
  /\ UNCHANGED <<cbVars, rtVars, sqVars, ddVars, pbVars>>

\* stop()
CallStop ==
  /\ mc.isRunning
  /\ mc' = [mc EXCEPT !.isRunning = FALSE]
  /\ stopCall' = IF stopCall.called THEN stopCall
                 ELSE [called |-> TRUE, at |-> loopPc, received |-> FALSE]
  /\ UNCHANGED <<loopPc, pendingDeletes, deleted, threwEver, hm, peVars, startCall, sleepMs>>
  /\ UNCHANGED <<deleteCalls, deleteFailed, loops>>
  /\ UNCHANGED <<cbVars, rtVars, sqVars, ddVars, pbVars>>

\* setHealthMonitor(monitor)
CallSetHealthMonitor ==
  /\ ~mc.healthMonitor
  /\ mc' = [mc EXCEPT !.healthMonitor = TRUE]
  /\ UNCHANGED <<loopPc, pendingDeletes, deleted, threwEver, hm, peVars, startCall, stopCall,
                 sleepMs>>
  /\ UNCHANGED <<deleteCalls, deleteFailed, loops>>
  /\ UNCHANGED <<cbVars, rtVars, sqVars, ddVars, pbVars>>

\* The loop after its receive has returned, were the flag read again there:
\* a stopped consumer leaves the loop.
afterReceive_checksFlag(consumer, messages) ==
  IF ~consumer.isRunning THEN "exited"
  ELSE IF Len(messages) = 0 THEN "sleepPoll"
  ELSE "process"

\* The loop after `await this._receiveMessages(options)`: with no message it
\* sleeps pollingInterval, otherwise it calls processMessages; isRunning is
\* not read.
afterReceive(consumer, messages) ==
  IF Len(messages) = 0 THEN "sleepPoll" ELSE "process"

\* The receive returns no message: the loop sleeps pollingInterval.
ReceiveReturnsNone ==
  /\ loopPc = "receive"
  /\ loopPc' = afterReceive(mc, <<>>)
  /\ sleepMs' = mc.options.pollingInterval
  /\ UNCHANGED <<mc, pendingDeletes, deleted, threwEver, hm, peVars, startCall, stopCall>>
  /\ UNCHANGED <<deleteCalls, deleteFailed, loops>>
  /\ UNCHANGED <<cbVars, rtVars, sqVars, ddVars, pbVars>>

\* The receive returns messages: processMessages is called with them.
ReceiveReturns ==
  /\ loopPc = "receive"
  /\ \E n \in 1..(MaxRecv - fed) :
       /\ n <= mc.options.maxMessages
       /\ \E messages \in Batches(fed, n) :
            /\ peMsgs' = messages
            /\ peOpts' = OptionsOfConsumer(mc)
            /\ run' = beginRun(pe, OptionsOfConsumer(mc), messages)
            /\ fed' = fed + n
  /\ loopPc' = afterReceive(mc, peMsgs')
  /\ UNCHANGED <<mc, pendingDeletes, deleted, threwEver, hm, pe, startCall, stopCall,
                 sleepMs>>
  /\ UNCHANGED <<deleteCalls, deleteFailed, sinceReset, loops>>
  /\ UNCHANGED <<cbVars, rtVars, sqVars, ddVars, pbVars>>

\* The catch block of a loop that backs off for one pollingInterval only.
loopCatch_singleInterval(consumer) ==
  [pc |-> "sleepError", ms |-> consumer.options.pollingInterval]

\* The catch block of the loop: the error is logged and the loop sleeps
\* pollingInterval * 2; it is not rethrown.
loopCatch(consumer) ==
  [pc |-> "sleepError", ms |-> consumer.options.pollingInterval * 2]

\* The receive fails (executeCommand rejects): the catch block of the loop
\* sleeps 2 * pollingInterval.
ReceiveFails ==
  /\ loopPc = "receive"
  /\ loopPc' = loopCatch(mc).pc
  /\ sleepMs' = loopCatch(mc).ms
  /\ UNCHANGED <<mc, pendingDeletes, deleted, threwEver, hm, peVars, startCall, stopCall>>
  /\ UNCHANGED <<deleteCalls, deleteFailed, loops>>
  /\ UNCHANGED <<cbVars, rtVars, sqVars, ddVars, pbVars>>

\* processMessages has returned: _deleteProcessedMessages calls _deleteMessage
\* for every message that passes its filter, which issues the DeleteMessage
\* commands, and waits for them all.
ProcessReturns ==
  /\ loopPc = "process"
  /\ run.pc = "done"
  /\ pendingDeletes' = toDelete(peMsgs, run.results)
  /\ deleted' = deleted \cup toDelete(peMsgs, run.results)
  /\ threwEver' = threwEver \cup run.threw
  /\ deleteCalls' = deleteCalls \o deleteProcessedMessages(peMsgs, run.results)
  /\ deleteFailed' = FALSE
  /\ loopPc' = "delete"
  /\ UNCHANGED <<mc, hm, peVars, startCall, stopCall, sleepMs, loops>>
  /\ UNCHANGED <<cbVars, rtVars, sqVars, ddVars, pbVars>>

\* One DeleteMessage command settles: it succeeds, or it fails and the
\* failure is caught and logged in _deleteMessage; either way the promise of
\* that _deleteMessage call fulfils.
DeleteSettles ==
  /\ loopPc = "delete"
  /\ \E handle \in pendingDeletes, outcome \in {"ok", "fails"} :
       /\ pendingDeletes' = pendingDeletes \ {handle}
       /\ deleteFailed' = (deleteFailed \/ outcome = "fails")
  /\ UNCHANGED <<mc, loopPc, deleted, threwEver, hm, peVars, startCall, stopCall, sleepMs,
                 deleteCalls, loops>>
  /\ UNCHANGED <<cbVars, rtVars, sqVars, ddVars, pbVars>>

\* All deletes have settled: the health monitor, if attached, is updated, and
\* the loop sleeps throttleDelayMs if it is positive, else goes to its top.
DeletesDone ==
  /\ loopPc = "delete"
  /\ pendingDeletes = {}
  /\ hm' = IF mc.healthMonitor THEN updateHealthMonitor(hm, run.results) ELSE hm
  /\ loopPc' = IF mc.options.throttleDelayMs > 0 THEN "sleepThrottle" ELSE LoopTop(mc)
  /\ sleepMs' = IF mc.options.throttleDelayMs > 0 THEN mc.options.throttleDelayMs ELSE NULL
  /\ stopCall' = noteReceive(stopCall, loopPc')
  /\ UNCHANGED <<mc, pendingDeletes, deleted, threwEver, peVars, startCall>>
  /\ UNCHANGED <<deleteCalls, deleteFailed, loops>>
  /\ UNCHANGED <<cbVars, rtVars, sqVars, ddVars, pbVars>>

\* A sleep of the loop ends: back to the top of the loop.
LoopSleepEnds ==
  /\ loopPc \in {"sleepPoll", "sleepThrottle", "sleepError"}
  /\ loopPc' = LoopTop(mc)
  /\ sleepMs' = NULL
  /\ stopCall' = noteReceive(stopCall, loopPc')
  /\ UNCHANGED <<mc, pendingDeletes, deleted, threwEver, hm, peVars, startCall>>
  /\ UNCHANGED <<deleteCalls, deleteFailed, loops>>
  /\ UNCHANGED <<cbVars, rtVars, sqVars, ddVars, pbVars>>

NextConsumer ==
  \/ CallStart
  \/ CallStop
  \/ CallSetHealthMonitor
  \/ ReceiveReturnsNone
  \/ ReceiveReturns
  \/ ReceiveFails
  \/ HandlerSettles
  \/ EngineResumes
  \/ ProcessReturns
  \/ DeleteSettles
  \/ DeletesDone
  \/ LoopSleepEnds

SpecConsumer == InitConsumer /\ [][NextConsumer]_vars

\* The steps the loop takes by itself: an operation it awaits (a receive, a
\* handler, a delete, a sleep) completes and the loop goes on.
LoopProgress ==
  \/ ReceiveReturnsNone
  \/ ReceiveReturns
  \/ ReceiveFails
  \/ HandlerSettles
  \/ EngineResumes
  \/ ProcessReturns
  \/ DeleteSettles
  \/ DeletesDone
  \/ LoopSleepEnds

\* A consumer constructed with batchSize 2, in either mode, with and without
\* a throttle delay.
InitConsumerFair ==
  /\ InitConsumer
  /\ mc.options.batchSize = 2

\* The consumer when every operation the loop awaits completes.
SpecConsumerFair ==
  InitConsumerFair /\ [][NextConsumer]_vars /\ WF_vars(LoopProgress)

\* ------------------------------------- MessageConsumer: start() at any time

\* The _consumeLoop calls made so far are loops 1 .. NextLoop - 1.
NextLoop == Cardinality({l \in 1..MaxLoops : loops[l] # "none"}) + 1

\* start(handler), called whatever the loops of earlier start() calls are
\* doing: with a handler that is no function it throws; otherwise the handler
\* is stored, isRunning is set and _consumeLoop is called once more, which
\* issues its first receive. start() reads neither isRunning nor anything
\* about an earlier loop.
StartAnyTime ==
  /\ \E handler \in Handlers :
       LET call == start(mc, handler) IN
         /\ call.threw \/ NextLoop <= MaxLoops
         /\ mc' = call.mc
         /\ loops' = IF call.threw THEN loops
                     ELSE [loops EXCEPT ![NextLoop] = LoopTop(call.mc)]
         /\ startCall' = [handler |-> handler, threw |-> call.threw,
                          unchanged |-> (call.mc = mc /\ loops' = loops),
                          began |-> /\ call.mc.isRunning
                                    /\ call.mc.messageHandler = handler
                                    /\ loops' # loops]
         /\ stopCall' = IF call.threw THEN stopCall ELSE NoStopCall
  /\ UNCHANGED <<loopPc, pendingDeletes, deleted, threwEver, hm, peVars, sleepMs,
                 deleteCalls, deleteFailed>>
  /\ UNCHANGED <<cbVars, rtVars, sqVars, ddVars, pbVars>>

\* The receive of loop l settles: it returns no message, or a batch, or it
\* fails and the catch block of the loop is entered.
LoopReceiveSettles(l) ==
  /\ loops[l] = "receive"
  /\ \E outcome \in {"returns", "fails"}, messages \in {<<>>} \cup Batches(0, 1) :
       loops' = [loops EXCEPT ![l] = IF outcome = "fails" THEN loopCatch(mc).pc
                                     ELSE afterReceive(mc, messages)]
  /\ UNCHANGED <<mc, loopPc, pendingDeletes, deleted, threwEver, hm, peVars, startCall,
                 stopCall, sleepMs, deleteCalls, deleteFailed>>
  /\ UNCHANGED <<cbVars, rtVars, sqVars, ddVars, pbVars>>

\* processMessages returns to loop l, which starts the deletes; or the deletes
\* of loop l have settled, and it sleeps throttleDelayMs if that is positive,
\* else goes to its top.
LoopBatchStep(l) ==
  /\ loops[l] \in {"process", "delete"}
  /\ loops' = [loops EXCEPT ![l] =
                 IF loops[l] = "process" THEN "delete"
                 ELSE IF mc.options.throttleDelayMs > 0 THEN "sleepThrottle"
                 ELSE LoopTop(mc)]
  /\ UNCHANGED <<mc, loopPc, pendingDeletes, deleted, threwEver, hm, peVars, startCall,
                 stopCall, sleepMs, deleteCalls, deleteFailed>>
  /\ UNCHANGED <<cbVars, rtVars, sqVars, ddVars, pbVars>>

\* A sleep of loop l ends: back to the top of the loop.
LoopWakes(l) ==
  /\ loops[l] \in {"sleepPoll", "sleepThrottle", "sleepError"}
  /\ loops' = [loops EXCEPT ![l] = LoopTop(mc)]
  /\ UNCHANGED <<mc, loopPc, pendingDeletes, deleted, threwEver, hm, peVars, startCall,
                 stopCall, sleepMs, deleteCalls, deleteFailed>>
  /\ UNCHANGED <<cbVars, rtVars, sqVars, ddVars, pbVars>>

NextRestart ==
  \/ StartAnyTime
  \/ CallStop
  \/ \E l \in 1..MaxLoops : LoopReceiveSettles(l)
  \/ \E l \in 1..MaxLoops : LoopBatchStep(l)
  \/ \E l \in 1..MaxLoops : LoopWakes(l)

\* The consumer under any sequence of start() and stop() calls; what a loop
\* does with a batch is left to SpecConsumer.
SpecRestart == InitConsumer /\ [][NextRestart]_vars

\* --------------------------------------------------- SQSClient behaviour

InitClient ==
  /\ InitClientVars /\ InitEngineIdle /\ InitConsumerIdle
  /\ InitDedupIdle /\ InitPublisherIdle

\* executeCommand(command) is called by caller c: canExecute() is asked; when
\* it denies, the call throws at once; otherwise executeWithRetry is entered
\* with attempt 0 and executeFn calls awsClient.send().
CallExecuteCommand(c) ==
  /\ cmds[c].pc = "idle"
  /\ sent < MaxSends
  /\ LET answer == admits(cb, now)
         call == [IdleCommand EXCEPT
                    !.allowed = canExecute(cb, now).ret,
                    !.deniedIn = IF canExecute(cb, now).ret THEN "none"
                                 ELSE answer.cb.state,
                    !.countersKept = /\ answer.cb.failureCount = cb.failureCount
                                     /\ answer.cb.successCount = cb.successCount]
     IN /\ cb' = answer.cb
        /\ cmds' = [cmds EXCEPT ![c] =
                      IF answer.ret
                      THEN [call EXCEPT !.pc = "sending", !.sends = 1]
                      ELSE [call EXCEPT !.pc = "thrown",
                                        !.out = Throws(CircuitOpenError)]]
        /\ sent' = IF answer.ret THEN sent + 1 ELSE sent
  /\ UNCHANGED <<now, cbOp, cbRet, cbPre, onlyFailures, halfSucc, failuresRecorded>>
  /\ UNCHANGED <<rtVars, peVars, mcVars, ddVars, pbVars>>

\* awsClient.send() resolves for caller c: executeFn records the success and
\* returns the result, which executeWithRetry and executeCommand return.
SendResolves(c) ==
  /\ cmds[c].pc = "sending"
  /\ cb.successCount < MaxCount
  /\ LET done == executeFn(cb, now, "ok") IN
       /\ cb' = done.cb
       /\ cmds' = [cmds EXCEPT ![c] =
                     [@ EXCEPT !.okSends = @ + 1,
                               !.recordedSuccess =
                                 @ + (IF done.call = "recordSuccess" THEN 1 ELSE 0),
                               !.recordedFailure =
                                 @ + (IF done.call = "recordFailure" THEN 1 ELSE 0),
                               !.out = Returns("result"),
                               !.pc = "returned"]]
  /\ UNCHANGED <<now, cbOp, cbRet, cbPre, onlyFailures, halfSucc, failuresRecorded, sent>>
  /\ UNCHANGED <<rtVars, peVars, mcVars, ddVars, pbVars>>

\* awsClient.send() rejects for caller c with an error of some name:
\* executeFn records the failure and rethrows; the catch block of
\* executeWithRetry asks shouldRetry and starts the backoff sleep, or leaves
\* the loop and throws the error.
SendRejects(c) ==
  /\ cmds[c].pc = "sending"
  /\ cb.failureCount < MaxCount
  /\ \E error \in ErrorNames :
       LET done == executeFn(cb, now, error)
           failed == [cmds[c] EXCEPT
                        !.failedSends = @ + 1,
                        !.recordedSuccess =
                          @ + (IF done.call = "recordSuccess" THEN 1 ELSE 0),
                        !.recordedFailure =
                          @ + (IF done.call = "recordFailure" THEN 1 ELSE 0),
                        !.lastError = error]
       IN /\ cb' = done.cb
          /\ cmds' = [cmds EXCEPT ![c] =
                        IF willRetry(rm, failed.attempt, CommandOptions, shouldRetry(error))
                        THEN [failed EXCEPT !.pc = "sleeping", !.sleeps = @ + 1]
                        ELSE [failed EXCEPT !.pc = "thrown", !.out = Throws(error)]]
  /\ UNCHANGED <<now, cbOp, cbRet, cbPre, onlyFailures, halfSucc, failuresRecorded, sent>>
  /\ UNCHANGED <<rtVars, peVars, mcVars, ddVars, pbVars>>

\* The backoff sleep of caller c ends: attempt++, and while
\* attempt <= maxRetries executeFn calls awsClient.send() again.
CommandSleepEnds(c) ==
  /\ cmds[c].pc = "sleeping"
  /\ sent < MaxSends
  /\ cmds' = [cmds EXCEPT ![c] =
                IF cmds[c].attempt + 1 <= rm.maxRetries
                THEN [@ EXCEPT !.attempt = @ + 1, !.sends = @ + 1, !.pc = "sending"]
                ELSE [@ EXCEPT !.attempt = @ + 1, !.pc = "thrown",
                               !.out = Throws(cmds[c].lastError)]]
  /\ sent' = IF cmds[c].attempt + 1 <= rm.maxRetries THEN sent + 1 ELSE sent
  /\ UNCHANGED <<cbVars, rtVars, peVars, mcVars, ddVars, pbVars>>

\* Caller c has the result (or the error) of its command.
CommandSettled(c) ==
  /\ cmds[c].pc \in {"returned", "thrown"}
  /\ cmds' = [cmds EXCEPT ![c] = IdleCommand]
  /\ UNCHANGED <<cbVars, rtVars, peVars, mcVars, sent, ddVars, pbVars>>

\* resetCircuitBreaker()
CallResetCircuitBreaker ==
  /\ cb.state # "CLOSED"
  /\ cb' = reset(cb)
  /\ UNCHANGED <<now, cbOp, cbRet, cbPre, onlyFailures, halfSucc, failuresRecorded>>
  /\ UNCHANGED <<rtVars, peVars, mcVars, sqVars, ddVars, pbVars>>

\* updateRetryConfig({maxRetries: k}) while no command is in progress.
CallUpdateRetryConfig ==
  /\ \A c \in Commands : cmds[c].pc = "idle"
  /\ \E k \in 0..(MaxRetriesCfg - 2) :
       /\ k # rm.maxRetries
       /\ rm' = updateConfig(rm, [maxRetries |-> k, backoffMultiplier |-> NULL,
                                  maxBackoffMs |-> NULL, initialDelayMs |-> NULL])
  /\ UNCHANGED <<rtFn, rtPc, rtOpts, attempt, calls, delays, onRetryLog, onFailureLog,
                 refused, lastError, attempts, rtOut>>
  /\ UNCHANGED <<cbVars, peVars, mcVars, sqVars, ddVars, pbVars>>

NextClient ==
  \/ Tick
  \/ \E c \in Commands : CallExecuteCommand(c)
  \/ \E c \in Commands : SendResolves(c)
  \/ \E c \in Commands : SendRejects(c)
  \/ \E c \in Commands : CommandSleepEnds(c)
  \/ \E c \in Commands : CommandSettled(c)
  \/ CallResetCircuitBreaker
  \/ CallUpdateRetryConfig

SpecClient == InitClient /\ [][NextClient]_vars

\* ------------------------------------------------------ SQSClient claims

\* C14: when canExecute() returns false at the start of executeCommand, the
\* command fails at once with the 'Circuit breaker is open' error:
\* awsClient.send() is not invoked, no retry or backoff sleep happens, nothing
\* is recorded in the breaker and neither breaker counter changes.
C14_DeniedFailsFast ==
  \A c \in Commands :
    ~cmds[c].allowed =>
      /\ cmds[c].pc = "thrown"
      /\ cmds[c].out = Throws(CircuitOpenError)
      /\ cmds[c].sends = 0
      /\ cmds[c].sleeps = 0
      /\ cmds[c].recordedSuccess = 0 /\ cmds[c].recordedFailure = 0
      /\ cmds[c].countersKept
      /\ cmds[c].deniedIn = "OPEN"

\* C14 witness: the command of caller b was denied by a breaker that the
\* failed sends of caller a had opened.
C14_Witness ==
  /\ ~cmds["b"].allowed
  /\ cmds["b"].pc = "thrown"
  /\ cb.state = "OPEN"
  /\ cb.failureCount >= 2
  /\ cmds["b"].sends = 0
  /\ cmds["a"].failedSends >= 2

\* C15: in executeCommand an error whose name is not one of the transient
\* names is surfaced with no retry (after exactly one send when it is the
\* first error), while a transient error is retried until a send succeeds or
\* maxRetries + 1 sends have been made; every send that has settled recorded
\* exactly one outcome in the breaker: recordSuccess when it resolved,
\* recordFailure when it rejected.
C15_TransientRetried ==
  \A c \in Commands :
    LET k == cmds[c] IN
    (k.pc # "idle" /\ k.allowed) =>
      /\ k.recordedSuccess = k.okSends
      /\ k.recordedFailure = k.failedSends
      /\ k.okSends + k.failedSends = k.sends - (IF k.pc = "sending" THEN 1 ELSE 0)
      /\ k.sleeps = k.attempt + (IF k.pc = "sleeping" THEN 1 ELSE 0)
      /\ k.pc = "sleeping" => k.lastError \in TransientNames
      /\ (k.pc = "thrown" /\ k.lastError \notin TransientNames) =>
           /\ k.out = Throws(k.lastError)
           /\ k.sends = k.failedSends
           /\ k.sleeps = k.sends - 1
      /\ (k.pc = "thrown" /\ k.lastError \in TransientNames) =>
           /\ k.out = Throws(k.lastError)
           /\ k.sends = rm.maxRetries + 1
           /\ k.failedSends = k.sends
      /\ k.pc = "returned" =>
           /\ k.okSends = 1
           /\ k.sends = k.failedSends + 1
           /\ k.sends <= rm.maxRetries + 1

\* C15 witness: with maxRetries 2 the command of caller a was sent three
\* times, failed with a transient error each time and threw the last one; the
\* command of caller b failed once with another error and threw it at once.
C15_Witness ==
  /\ rm.maxRetries = 2
  /\ cmds["a"].pc = "thrown"
  /\ cmds["a"].lastError = "TimeoutError"
  /\ cmds["a"].sends = 3
  /\ cmds["a"].recordedFailure = 3
  /\ cmds["b"].pc = "thrown"
  /\ cmds["b"].lastError = "ValidationError"
  /\ cmds["b"].sends = 1
  /\ cmds["b"].sleeps = 0
  /\ cmds["b"].recordedFailure = 1

\* C32: no step issues awsClient.send() (the first attempt of a command or a
\* later attempt of its retry loop, of any caller) while the breaker is OPEN
\* and its timeout has not elapsed.
C32_NoSendWhileOpen ==
  [][ sent' = sent + 1 => ~(cb.state = "OPEN" /\ ~canExecute(cb, now).ret) ]_vars

\* ---------------------------------------- DeduplicationManager behaviour

InitDedup ==
  /\ InitDedupIdle /\ InitPublisherIdle /\ InitBreakerIdle /\ InitRetryIdle
  /\ InitEngineIdle /\ InitConsumerIdle /\ InitClientIdle

\* isDuplicate(key) is called.
CallIsDuplicate ==
  /\ \E key \in Keys :
       LET expected == /\ insertedAt[key] # NULL
                       /\ now - insertedAt[key] <= dd.cacheExpiry
       IN /\ dd' = isDuplicate(dd, key, now).dd
          /\ ddCall' = [key |-> key, at |-> now, expiry |-> dd.cacheExpiry,
                        ret |-> isDuplicate(dd, key, now).ret,
                        prior |-> insertedAt[key]]
          /\ insertedAt' = IF expected THEN insertedAt
                           ELSE [insertedAt EXCEPT ![key] = now]
  /\ UNCHANGED <<cbVars, rtVars, peVars, mcVars, sqVars, pbVars>>

\* clearCache(): every key is forgotten.
CallClearCache ==
  /\ dd.deduplicationCache # EmptyCache
  /\ dd' = clearCache(dd)
  /\ ddCall' = NoDedupCall
  /\ insertedAt' = [k \in Keys |-> NULL]
  /\ UNCHANGED <<cbVars, rtVars, peVars, mcVars, sqVars, pbVars>>

\* updateConfig({cacheExpiry: x}), called before the cache is used.
CallUpdateDedupConfig ==
  /\ dd.deduplicationCache = EmptyCache
  /\ ddCall = NoDedupCall
  /\ \E x \in 0..MaxExpiry :
       /\ x # dd.cacheExpiry
       /\ dd' = updateDedupConfig(dd, x)
       /\ dd' # dd
  /\ UNCHANGED <<ddCall, insertedAt>>
  /\ UNCHANGED <<cbVars, rtVars, peVars, mcVars, sqVars, pbVars>>

NextDedup ==
  \/ Tick
  \/ CallIsDuplicate
  \/ CallClearCache
  \/ CallUpdateDedupConfig

SpecDedup == InitDedup /\ [][NextDedup]_vars

\* ------------------------------------------- DeduplicationManager claims

\* C16: isDuplicate(k) returns false the first time k is seen, true on every
\* repeat made while no more than cacheExpiry has passed since k was
\* inserted, and false again, inserting k anew, on a repeat made more than
\* cacheExpiry after the insertion.
C16_DuplicateWindow ==
  ddCall.key # "none" =>
    /\ ddCall.prior = NULL => ~ddCall.ret
    /\ (ddCall.prior # NULL /\ ddCall.at - ddCall.prior <= ddCall.expiry) => ddCall.ret
    /\ (ddCall.prior # NULL /\ ddCall.at - ddCall.prior > ddCall.expiry) => ~ddCall.ret
    /\ ~ddCall.ret =>
         /\ ddCall.key \in DOMAIN dd.deduplicationCache
         /\ dd.deduplicationCache[ddCall.key] = ddCall.at

\* C16 witness: with cacheExpiry 2, k1 was inserted at time 0, reported as a
\* duplicate since, and a repeat at time 3 has returned false and inserted it
\* anew.
C16_Witness ==
  /\ dd.cacheExpiry = 2
  /\ ddCall = [key |-> "k1", at |-> 3, expiry |-> 2, ret |-> FALSE, prior |-> 0]
  /\ now = 3
  /\ dd.deduplicationCache["k1"] = 3
  /\ "k2" \in DOMAIN dd.deduplicationCache

\* An isDuplicate call has just returned: no time has passed and the cache
\* was not cleared since.
JustCalledIsDuplicate == ddCall.key # "none" /\ ddCall.at = now

\* C25: after every isDuplicate call returns, the cache holds no entry older
\* than cacheExpiry (now minus its timestamp), it holds the queried key, and
\* the timestamp of a key reported as a duplicate is still the time of its
\* insertion.
C25_SweptAndPresent ==
  JustCalledIsDuplicate =>
    /\ \A id \in DOMAIN dd.deduplicationCache :
         now - dd.deduplicationCache[id] <= dd.cacheExpiry
    /\ ddCall.key \in DOMAIN dd.deduplicationCache
    /\ ddCall.ret =>
         /\ ddCall.prior # NULL
         /\ dd.deduplicationCache[ddCall.key] = ddCall.prior

\* C25 witness: with cacheExpiry 2, k2 was inserted at time 0 and k1 at time
\* 1; isDuplicate(k1) at time 3 has swept k2, reported k1 as a duplicate and
\* kept its timestamp 1.
C25_Witness ==
  /\ dd.cacheExpiry = 2
  /\ now = 3
  /\ ddCall = [key |-> "k1", at |-> 3, expiry |-> 2, ret |-> TRUE, prior |-> 1]
  /\ insertedAt["k2"] = 0
  /\ DOMAIN dd.deduplicationCache = {"k1"}
  /\ dd.deduplicationCache["k1"] = 1

\* -------------------------------------------- MessagePublisher behaviour

InitPublisher ==
  /\ InitPublisherVars /\ InitBreakerIdle /\ InitRetryIdle
  /\ InitEngineIdle /\ InitConsumerIdle /\ InitClientIdle

\* publish(messageBody, options) is called with a body and options that pass
\* the validation: the deduplication id is made, the duplicate test is made
\* and either throws 'Duplicate message detected', which the catch block turns
\* into the result, or the command is built and executeCommand is called.
CallPublish ==
  /\ Len(pubLog) + Len(pubBatch.rest) < MaxPublishes
  /\ \E messageBody \in Bodies, options \in PublishOptions :
       LET started == publish(pub, dd, messageBody, options, now, Len(pubLog) + 1)
       IN /\ dd' = started.dd
          /\ pubLog' = Append(pubLog, started.call)
  /\ UNCHANGED <<pub, pubBatch, ddCall, insertedAt>>
  /\ UNCHANGED <<cbVars, rtVars, peVars, mcVars, sqVars>>

\* Time passes between two steps of the publisher.
PublisherTick ==
  /\ now < MaxPublishTime
  /\ now' = now + 1
  /\ UNCHANGED <<cb, cbOp, cbRet, cbPre, onlyFailures, halfSucc, failuresRecorded>>
  /\ UNCHANGED <<rtVars, peVars, mcVars, sqVars, ddVars, pbVars>>

\* executeCommand resolves for a publish call: it returns success.
PublishSendResolves ==
  /\ \E i \in 1..Len(pubLog) :
       /\ pubLog[i].pc = "sending"
       /\ pubLog' = [pubLog EXCEPT ![i].pc = "sent"]
  /\ UNCHANGED <<pub, pubBatch, ddVars>>
  /\ UNCHANGED <<cbVars, rtVars, peVars, mcVars, sqVars>>

\* executeCommand rejects for a publish call: the catch block returns the
\* error result.
PublishSendRejects ==
  /\ \E i \in 1..Len(pubLog) :
       /\ pubLog[i].pc = "sending"
       /\ pubLog' = [pubLog EXCEPT ![i].pc = "failed"]
  /\ UNCHANGED <<pub, pubBatch, ddVars>>
  /\ UNCHANGED <<cbVars, rtVars, peVars, mcVars, sqVars>>

\* publishBatch(messages, options) is called while no other publishBatch call
\* is in progress: the publish calls of the first batch are started and
\* Promise.allSettled is awaited.
CallPublishBatch ==
  /\ pubBatch.pc = "idle"
  /\ Len(pubLog) < MaxPublishes
  /\ \E messages \in BatchInputs(MaxPublishes - Len(pubLog)), size \in {0, 1} :
       LET batchSize == IF size # 0 THEN size ELSE DefaultPublishBatchSize
           started == publishAll(pub, dd, pubLog, batchSlice(messages, 0, batchSize), now)
       IN /\ dd' = started.dd
          /\ pubLog' = started.log
          /\ pubBatch' = [pc |-> "awaiting", batchSize |-> batchSize,
                          rest |-> batchSlice(messages, batchSize, Len(messages)),
                          awaited |-> (Len(pubLog) + 1)..Len(started.log),
                          results |-> <<>>]
  /\ UNCHANGED <<pub, ddCall, insertedAt>>
  /\ UNCHANGED <<cbVars, rtVars, peVars, mcVars, sqVars>>

\* Every publish call of the batch awaited has ended: its results are pushed
\* in order, and the publish calls of the next batch are started, or, after
\* the last batch, publishBatch returns the results and the call is over.
PublishBatchResumes ==
  /\ pubBatch.pc = "awaiting"
  /\ \A k \in pubBatch.awaited : pubLog[k].pc # "sending"
  /\ LET results == pubBatch.results \o settledResults(pubLog, pubBatch.awaited)
         started == publishAll(pub, dd, pubLog,
                               batchSlice(pubBatch.rest, 0, pubBatch.batchSize), now)
     IN IF pubBatch.rest # <<>>
        THEN /\ dd' = started.dd
             /\ pubLog' = started.log
             /\ pubBatch' = [pubBatch EXCEPT
                               !.rest = batchSlice(@, pubBatch.batchSize, Len(@)),
                               !.results = results,
                               !.awaited = (Len(pubLog) + 1)..Len(started.log)]
        ELSE /\ pubBatch' = IdleBatch
             /\ UNCHANGED <<dd, pubLog>>
  /\ UNCHANGED <<pub, ddCall, insertedAt>>
  /\ UNCHANGED <<cbVars, rtVars, peVars, mcVars, sqVars>>

NextPublisher ==
  \/ PublisherTick
  \/ CallPublish
  \/ PublishSendResolves
  \/ PublishSendRejects
  \/ CallPublishBatch
  \/ PublishBatchResumes

SpecPublisher == InitPublisher /\ [][NextPublisher]_vars

\* ----------------------------------------------- MessagePublisher claims

\* Publish call j repeats call i: the same body and options, no explicit
\* messageDeduplicationId, made within the cache expiry window of call i,
\* which was not itself rejected as a duplicate.
Repeats(i, j) ==
  /\ i < j
  /\ pubLog[j].body = pubLog[i].body
  /\ pubLog[j].options = pubLog[i].options
  /\ pubLog[i].options.messageDeduplicationId = "undefined"
  /\ pubLog[i].pc # "duplicate"
  /\ pubLog[j].at - pubLog[i].at <= dd.cacheExpiry

\* C17: with deduplication enabled on a FIFO queue publisher with the content
\* strategy, publishing the same body a second time within the cache expiry
\* window (no explicit messageDeduplicationId) is rejected: the second
\* publish returns success false with error 'Duplicate message detected' and
\* sends nothing, whatever time elapses between the two publishes inside the
\* window.
C17_SecondPublishRejected ==
  (pub.fifo /\ pub.enableDeduplication /\ dd.strategy = "content") =>
    \A i, j \in 1..Len(pubLog) :
      Repeats(i, j) =>
        /\ pubLog[j].pc = "duplicate"
        /\ publishResult(pubLog[j]) =
             [success |-> FALSE, error |-> "Duplicate message detected"]

\* C38: a publish() call is rejected as 'Duplicate message detected' only if
\* an earlier call with the same deduplication id was sent, or is still being
\* sent: when every earlier call with that id ended with a failed send (or
\* was itself rejected), the new call is not rejected.
C38_DuplicateOnlyOfSent ==
  [][ \A j \in (Len(pubLog) + 1)..Len(pubLog') :
        pubLog'[j].pc = "duplicate" =>
          \E i \in 1..(j - 1) : /\ pubLog'[i].id = pubLog'[j].id
                                /\ pubLog'[i].pc \in {"sent", "sending"} ]_vars

\* C39: on a FIFO queue publisher with deduplication enabled (and the default,
\* content-based ids), a publish call (made by itself or by publishBatch, no
\* explicit messageDeduplicationId) is never rejected as the duplicate of a
\* call with a different body: two calls with different bodies do not get the
\* same deduplication id, whether or not they are made in the same
\* millisecond with the same group id.
C39_DistinctBodiesNotDuplicates ==
  (pub.fifo /\ pub.enableDeduplication /\ dd.strategy = "content") =>
    \A i, j \in 1..Len(pubLog) :
      (/\ i < j
       /\ pubLog[i].body # pubLog[j].body
       /\ pubLog[i].options.messageDeduplicationId = "undefined"
       /\ pubLog[j].options.messageDeduplicationId = "undefined") =>
        ~(pubLog[j].pc = "duplicate" /\ pubLog[j].id = pubLog[i].id)

\* ------------------------------------------------ MessageConsumer claims

\* C1: no DeleteMessage call is ever issued for a message whose handler threw,
\* in either processing mode and for every subset of failing messages.
\* (ReceiptHandle and MessageId of a message are the same value here.)
C1_NoDeleteForThrown == deleted \cap threwEver = {}

\* C18: start(handler) with a handler that is null or not a function throws
\* 'Message handler is required and must be a function' and changes nothing:
\* isRunning and messageHandler are as before (not running and no handler
\* stored, on a consumer never started) and no receive is issued; with a
\* function it stores the handler, sets isRunning and issues the first
\* receive of the loop.
C18_StartNeedsHandler ==
  startCall.handler # "none" =>
    /\ startCall.threw <=> startCall.handler # "fn"
    /\ startCall.threw => startCall.unchanged
    /\ (startCall.threw /\ loopPc = "none") =>
         ~mc.isRunning /\ mc.messageHandler = "null"
    /\ startCall.threw => loopPc \in {"none", "exited"}
    /\ (~startCall.threw /\ loopPc \notin {"none", "exited"}) =>
         mc.messageHandler = "fn"
    /\ startCall.threw => ~startCall.began
    /\ ~startCall.threw => startCall.began /\ loopPc # "none"

\* C18 witness: start('string') has thrown on a consumer never started.
C18_Witness ==
  /\ startCall = [handler |-> "string", threw |-> TRUE, unchanged |-> TRUE,
                  began |-> FALSE]
  /\ loopPc = "none"
  /\ ~mc.isRunning
  /\ mc.messageHandler = "null"

\* C26: after stop() on a running consumer, with no start() since, the loop
\* issues no receive that begins after the stop(); the stop() cancels nothing
\* (the loop, the handler invocations in flight and the deletes in flight are
\* as they were, and a handler in flight stays so until it settles); and,
\* the pending operations completing, the loop eventually exits.
C26_StopDrainsLoop ==
  /\ [](stopCall.called => ~stopCall.received)
  /\ [][ /\ (mc.isRunning /\ ~mc'.isRunning) =>
             (loopPc' = loopPc /\ run' = run /\ pendingDeletes' = pendingDeletes)
         /\ \A idx \in run.inFlight :
              idx \in run'.inFlight \/ idx \in DOMAIN run'.settled ]_vars
  /\ (stopCall.called ~> loopPc = "exited")

\* C26 witness: stop() was called while the handlers of the first batch
\* received were running; they settled, the deletes were issued and the loop
\* has exited without another receive.
C26_Witness ==
  /\ stopCall = [called |-> TRUE, at |-> "process", received |-> FALSE]
  /\ loopPc = "exited"
  /\ fed = Len(peMsgs)
  /\ Len(run.invoked) >= 2
  /\ run.pc = "done"
  /\ deleted # {}

\* stop() was called while the receive of an iteration was in flight (and
\* start() was not called since).
StoppedInReceive == stopCall.called /\ stopCall.at = "receive"

\* C27 as stated: the loop reads the running flag after every await: if
\* stop() is called while the receive of an iteration is in flight, then once
\* that receive returns the loop starts no processing and no delete for the
\* batch it returned.
C27_Original ==
  StoppedInReceive => loopPc \notin {"process", "delete", "sleepThrottle"}

\* C27 amended: the loop reads the running flag at the top of each iteration
\* only: when the receive returns messages to a consumer stopped meanwhile,
\* processMessages is called with them (the handler is invoked), and when it
\* returns the deletes of the batch are issued as for any other batch; a
\* receive that returns nothing is followed by the sleep; no further receive
\* is issued.
C27_FlagReadAtTopOnly ==
  /\ [][ (loopPc = "receive" /\ ~mc.isRunning /\ loopPc' # loopPc) =>
           IF fed' > fed
           THEN /\ loopPc' = "process"
                /\ run'.pc # "idle"
                /\ Head(peMsgs').Body = "json" =>
                     run'.invoked # <<>> /\ Head(run'.invoked) = Head(peMsgs').MessageId
           ELSE loopPc' \in {"sleepPoll", "sleepError"} ]_vars
  /\ [][ (loopPc = "process" /\ ~mc.isRunning /\ loopPc' # loopPc) =>
           /\ run.pc = "done"
           /\ loopPc' = "delete"
           /\ pendingDeletes' = toDelete(peMsgs, run.results)
           /\ deleted' = deleted \cup toDelete(peMsgs, run.results) ]_vars
  /\ [](StoppedInReceive => ~stopCall.received)

\* C27 witness: stop() was called during the first receive; the receive
\* returned two messages, their handlers were invoked, deletes were issued
\* and the loop has exited.
C27_Witness ==
  /\ StoppedInReceive
  /\ loopPc = "exited"
  /\ fed = 2
  /\ Len(peMsgs) = 2
  /\ Len(run.invoked) = 2
  /\ run.pc = "done"
  /\ Cardinality(deleted) = 2

\* C28: a fault of the loop (the receive failing) never ends the loop: the
\* loop leaves a receive only for the polling sleep, the processing or the
\* fault backoff; the backoff sleeps 2 * pollingInterval, and the step that
\* ends it issues the next receive while the consumer is running (no receive
\* is in flight during the sleep); the loop exits only when isRunning is
\* false.
C28_LoopFaultBackoff ==
  /\ [](loopPc = "sleepError" => sleepMs = 2 * mc.options.pollingInterval)
  /\ [][ (loopPc = "receive" /\ loopPc' # loopPc) =>
           loopPc' \in {"sleepPoll", "process", "sleepError"} ]_vars
  /\ [][ (loopPc = "sleepError" /\ loopPc' # loopPc) =>
           /\ loopPc' = (IF mc.isRunning THEN "receive" ELSE "exited")
           /\ sleepMs' = NULL ]_vars
  /\ [][ (loopPc' = "exited" /\ loopPc # "exited") => ~mc.isRunning ]_vars

\* C28 witness: a consumer with pollingInterval 250 has processed a batch;
\* its next receive failed and the running loop sleeps 500 ms.
C28_Witness ==
  /\ loopPc = "sleepError"
  /\ mc.isRunning
  /\ mc.options.pollingInterval = 250
  /\ sleepMs = 500
  /\ fed > 0
  /\ deleted # {}

\* The number of _deleteMessage calls made with a receipt handle.
DeleteCallsFor(handle) ==
  Cardinality({n \in 1..Len(deleteCalls) : deleteCalls[n] = handle})

\* The handler was invoked for message k of the batch and did not throw.
HandlerCompleted(k) ==
  /\ \E n \in 1..Len(run.invoked) : run.invoked[n] = peMsgs[k].MessageId
  /\ peMsgs[k].MessageId \notin run.threw

\* The loop has come to the deletes of the batch in peMsgs, or further.
BatchProcessed == run.pc = "done" /\ loopPc \notin {"none", "process"}

\* C29: once a batch is processed, and so before the next receive, exactly
\* one delete has been issued for each message of it whose handler completed
\* without throwing (and no handle is ever deleted twice); the deletes of a
\* batch are all issued together and settle one by one, a failed one like a
\* successful one; and when all have settled the loop goes on to the throttle
\* sleep or the loop test, never to the fault backoff.
C29_DeletesSuccessful ==
  /\ [](BatchProcessed =>
         \A k \in 1..Len(peMsgs) :
           HandlerCompleted(k) => DeleteCallsFor(peMsgs[k].ReceiptHandle) = 1)
  /\ [](\A n \in 1..Len(deleteCalls) : DeleteCallsFor(deleteCalls[n]) = 1)
  /\ []((loopPc = "receive" /\ run.pc = "done") => pendingDeletes = {})
  /\ [][ (loopPc = "delete" /\ pendingDeletes' # pendingDeletes) =>
           /\ \E handle \in pendingDeletes : pendingDeletes' = pendingDeletes \ {handle}
           /\ loopPc' = "delete"
           /\ deleteCalls' = deleteCalls ]_vars
  /\ [][ (loopPc = "delete" /\ loopPc' # loopPc) =>
           /\ pendingDeletes = {}
           /\ loopPc' \in {"sleepThrottle", "receive", "exited"} ]_vars

\* C29 witness: a parallel batch of three messages, the handler threw for the
\* second one only; three deletes were issued, one of them failed, and the
\* loop has issued its next receive.
C29_Witness ==
  /\ pe.mode = "parallel"
  /\ Len(peMsgs) = 3
  /\ run.pc = "done"
  /\ run.threw = {peMsgs[2].MessageId}
  /\ HandlerCompleted(1) /\ HandlerCompleted(3)
  /\ DeleteCallsFor(peMsgs[1].ReceiptHandle) = 1
  /\ DeleteCallsFor(peMsgs[3].ReceiptHandle) = 1
  /\ deleteFailed
  /\ pendingDeletes = {}
  /\ loopPc = "receive"

\* The _consumeLoop calls that have not returned.
ActiveLoops == {l \in 1..MaxLoops : loops[l] \notin {"none", "exited"}}

\* C33: at most one consume loop is active at any time, for every sequence of
\* start() and stop() calls.
C33_AtMostOneLoop == Cardinality(ActiveLoops) <= 1

\* C31: with a health monitor attached, the loop's report of a processed batch
\* makes as many recordSuccess calls as the batch has successfully processed
\* messages and as many recordFailure calls as it has failed messages (so
\* after any sequence of batches the calls made equal the totals).
C31_MonitorCountsMessages ==
  [][ (loopPc = "delete" /\ loopPc' # "delete" /\ mc.healthMonitor) =>
        /\ hm'.successes - hm.successes = run.results.successful
        /\ hm'.failures - hm.failures = run.results.failed ]_vars

\* ----------------------------------------------- ProcessingEngine claims

\* The ids of the messages of the call that failed: the handler threw, or the
\* body did not parse (and the handler was not invoked).
FailedIds ==
  { peMsgs[k].MessageId : k \in { j \in 1..Len(peMsgs) :
      peMsgs[j].Body = "garbage" \/ peMsgs[j].MessageId \in run.threw } }

\* errors[] holds exactly one entry for each id of ids and no other entry.
ErrorsAreExactly(ids) ==
  /\ Len(run.results.errors) = Cardinality(ids)
  /\ { run.results.errors[j].messageId : j \in 1..Len(run.results.errors) } = ids

\* The ids of the messages whose body parses, in input order: the handler
\* invocations of a sequential pass that skips none.
RECURSIVE ParsedIds(_)
ParsedIds(messages) ==
  IF messages = <<>> THEN <<>>
  ELSE IF Head(messages).Body = "json"
       THEN <<Head(messages).MessageId>> \o ParsedIds(Tail(messages))
       ELSE ParsedIds(Tail(messages))

\* C2: a sequential processMessages call counts every message whose handler
\* threw (or whose body did not parse) in `failed` with exactly one errors[]
\* entry carrying its messageId, counts every other message in `successful`,
\* and has invoked the handler for every later message of the batch.
C2_SequentialPartialFailure ==
  (run.pc = "done" /\ pe.mode = "sequential") =>
    /\ run.results.failed = Cardinality(FailedIds)
    /\ run.results.successful = Len(peMsgs) - Cardinality(FailedIds)
    /\ ErrorsAreExactly(FailedIds)
    /\ run.invoked = ParsedIds(peMsgs)

C4_CountsAddUp ==
  run.pc = "done" =>
    /\ run.results.successful + run.results.failed = run.results.total
    /\ run.results.total = Len(peMsgs)
    /\ Len(run.results.errors) = run.results.failed

\* C4 witness: a parallel call in which some handlers threw and some returned.
C4_Witness ==
  /\ run.pc = "done"
  /\ pe.mode = "parallel"
  /\ run.threw # {}
  /\ run.results.failed > 0
  /\ run.results.successful > 0
  /\ Len(peMsgs) >= 3

\* The ids of the messages, in input order.
AllIds(messages) == [k \in 1..Len(messages) |-> messages[k].MessageId]

\* Sequence a is a prefix of sequence b.
IsPrefix(a, b) == Len(a) <= Len(b) /\ a = SubSeq(b, 1, Len(a))

\* In a sequential call at most one handler invocation has not settled, and
\* it is the last one made.
OneAtATime ==
  /\ Cardinality(run.inFlight) <= 1
  /\ \A idx \in run.inFlight :
       /\ run.invoked # <<>>
       /\ peMsgs[idx].MessageId = run.invoked[Len(run.invoked)]

\* C19 as stated: in sequential mode the handler is invoked for the messages
\* of a batch in input order and one at a time, the handler for message i+1
\* not before the handler call for message i has settled, and for each
\* message exactly once.
C19_Original ==
  (pe.mode = "sequential" /\ run.pc # "idle") =>
    /\ OneAtATime
    /\ IsPrefix(run.invoked, AllIds(peMsgs))
    /\ run.pc = "done" => run.invoked = AllIds(peMsgs)

\* C19 amended: in sequential mode the handler is invoked in input order and
\* one at a time, the next invocation not before the one before has settled,
\* exactly once for each message whose body parses as JSON and not at all for
\* a message whose body does not parse.
C19_SequentialOrder ==
  (pe.mode = "sequential" /\ run.pc # "idle") =>
    /\ OneAtATime
    /\ IsPrefix(run.invoked, ParsedIds(peMsgs))
    /\ run.pc = "done" => run.invoked = ParsedIds(peMsgs)

\* C19 witness: a sequential call on three messages, the second with a body
\* that does not parse, has ended: the handler was invoked for the first and
\* the third, in that order, and threw for one of them.
C19_Witness ==
  /\ pe.mode = "sequential"
  /\ run.pc = "done"
  /\ Len(peMsgs) = 3
  /\ peMsgs[2].Body = "garbage"
  /\ run.invoked = <<peMsgs[1].MessageId, peMsgs[3].MessageId>>
  /\ run.threw = {peMsgs[1].MessageId}

\* C20: in parallel mode, at every moment of a processMessages call the
\* number of handler invocations started and not yet settled is at most
\* min(batchSize, maxConcurrency), for every batch length, batchSize >= 1 and
\* maxConcurrency >= 1.
C20_BoundedConcurrency ==
  (pe.mode = "parallel" /\ run.pc # "idle") =>
    /\ Cardinality(run.inFlight) <= BatchSizeOf(pe, peOpts)
    /\ Cardinality(run.inFlight) <= MaxConcurrencyOf(pe, peOpts)

\* C20 witness: five messages, batchSize 3, maxConcurrency 2: two handler
\* invocations are in flight, for the first two messages of the second batch.
C20_Witness ==
  /\ pe.mode = "parallel"
  /\ run.pc = "parAwait"
  /\ Len(peMsgs) = 5
  /\ BatchSizeOf(pe, peOpts) = 3
  /\ MaxConcurrencyOf(pe, peOpts) = 2
  /\ run.inFlight = {4, 5}

\* The offset of the first message of the batch that message index idx (from
\* 1) belongs to: batch k holds the messages at offsets k * batchSize ..
\* (k + 1) * batchSize - 1.
BatchOffsetOf(idx) ==
  ((idx - 1) \div BatchSizeOf(pe, peOpts)) * BatchSizeOf(pe, peOpts)

\* Message index j has been dealt with: its handler, if its body parses, was
\* invoked and has settled, and its outcome has been added to the results.
Tallied(j) ==
  /\ j \notin run.inFlight
  /\ j \notin DOMAIN run.settled
  /\ peMsgs[j].Body = "json" =>
       \E n \in 1..Len(run.invoked) : run.invoked[n] = peMsgs[j].MessageId

\* C21: in parallel mode, while a handler invocation of some batch has not
\* settled, every message of every earlier batch has had its handler
\* invocation settle and its outcome added to the results: no handler of
\* batch k+1 is invoked before batch k is settled and tallied.
C21_BatchAfterBatch ==
  (pe.mode = "parallel" /\ run.pc = "parAwait") =>
    \A idx \in run.inFlight :
      /\ \A j \in 1..BatchOffsetOf(idx) : Tallied(j)
      /\ run.results.successful + run.results.failed >= BatchOffsetOf(idx)

\* C21 witness: five messages, batchSize 2: the handler of the third message
\* (the second batch) is in flight, the two messages of the first batch are
\* tallied, one of them as failed.
C21_Witness ==
  /\ pe.mode = "parallel"
  /\ run.pc = "parAwait"
  /\ Len(peMsgs) = 5
  /\ BatchSizeOf(pe, peOpts) = 2
  /\ MaxConcurrencyOf(pe, peOpts) >= 2
  /\ 3 \in run.inFlight
  /\ run.results.successful = 1
  /\ run.results.failed = 1
  /\ run.threw = {peMsgs[2].MessageId}

\* C30: between two calls of processMessages, totalProcessed is the number of
\* messages whose handler completed without throwing and totalFailed the
\* number of messages whose handler threw, counted over the calls that
\* returned since construction or the last resetStats(), and the two add up to
\* the number of messages those calls were given; right after resetStats()
\* (nothing handled since) both counters are 0. A message whose body
\* JSON.parse rejects is counted with the throws: the parse and the handler
\* sit in the same try block of _processSingleMessage.
C30_StatsCountHandlerOutcomes ==
  run.pc \in {"idle", "done"} =>
    /\ pe.processingStats.totalProcessed = sinceReset.completed
    /\ pe.processingStats.totalFailed = sinceReset.threw + sinceReset.unparsed
    /\ pe.processingStats.totalProcessed + pe.processingStats.totalFailed
         = sinceReset.given

\* ------------------------------------------------- CircuitBreaker claims

\* canExecute() on breaker b at time t is allowed by the rule of the data model.
Allowed(b, t) ==
  \/ b.state = "CLOSED"
  \/ b.state = "HALF_OPEN"
  \/ b.state = "OPEN" /\ t - Num(b.lastFailureTime) > b.timeout

\* C5: from a fresh breaker and with recordFailure() the only recording call,
\* the state is CLOSED while failureCount < failureThreshold, it becomes OPEN
\* on exactly the call that makes failureCount equal failureThreshold, and from
\* then on every canExecute() made while now - lastFailureTime <= timeout
\* returns false.
C5_OpensAtThreshold ==
  onlyFailures =>
    /\ cb.failureCount < cb.failureThreshold => cb.state = "CLOSED"
    /\ cb.failureCount >= cb.failureThreshold => cb.state # "CLOSED"
    /\ (cbOp = "recordFailure" /\ cb.failureCount = cb.failureThreshold)
         => cbPre.state = "CLOSED" /\ cb.state = "OPEN"
    /\ (/\ cbOp = "canExecute"
        /\ cbPre.failureCount >= cbPre.failureThreshold
        /\ now - Num(cbPre.lastFailureTime) <= cbPre.timeout)
         => cbRet = FALSE /\ cb.state = "OPEN"

\* C5 witness: the third of three failures has opened a threshold-3 breaker and
\* a canExecute() inside the timeout was denied.
C5_Witness ==
  /\ onlyFailures
  /\ cb.failureThreshold = 3
  /\ cb.failureCount = 3
  /\ cbOp = "canExecute"
  /\ now - Num(cb.lastFailureTime) <= cb.timeout
  /\ cbRet = FALSE
  /\ cb.state = "OPEN"

\* C6: a canExecute() on an OPEN breaker whose timeout has elapsed returns true
\* and leaves it HALF_OPEN; failureThreshold recordSuccess() calls after that
\* change, with no recordFailure() between, leave it CLOSED with both counters 0.
C6_HalfOpenRecovery ==
  /\ (/\ cbOp = "canExecute"
      /\ cbPre.state = "OPEN"
      /\ now - Num(cbPre.lastFailureTime) > cbPre.timeout)
       => cbRet = TRUE /\ cb.state = "HALF_OPEN"
  /\ (halfSucc # NULL /\ halfSucc < cb.failureThreshold) => cb.state = "HALF_OPEN"
  /\ (cbOp = "recordSuccess" /\ halfSucc = cb.failureThreshold)
       => cb.state = "CLOSED" /\ cb.failureCount = 0 /\ cb.successCount = 0

\* C6 witness: threshold 3, the third success since HALF_OPEN has closed it.
C6_Witness ==
  /\ cb.failureThreshold = 3
  /\ cbOp = "recordSuccess"
  /\ halfSucc = 3
  /\ cbPre.state = "HALF_OPEN"
  /\ cb.state = "CLOSED"

\* C7: canExecute() returns true iff the state before the call is CLOSED, or
\* HALF_OPEN, or OPEN with now - lastFailureTime > timeout; when it returns
\* false the state is still OPEN.
C7_CanExecuteIff ==
  cbOp = "canExecute" =>
    /\ cbRet <=> Allowed(cbPre, now)
    /\ ~cbRet => cb.state = "OPEN"

\* C7 witness: a canExecute() was denied on an OPEN breaker exactly at the
\* timeout (now - lastFailureTime = timeout).
C7_Witness ==
  /\ cbOp = "canExecute"
  /\ cbPre.state = "OPEN"
  /\ now - Num(cbPre.lastFailureTime) = cbPre.timeout
  /\ cbRet = FALSE

\* C8: reset() leaves the breaker CLOSED with failureCount = 0, successCount = 0
\* and lastFailureTime cleared, and a canExecute() made next, at any later
\* time, returns true.
C8_Reset ==
  cbOp = "reset" =>
    /\ cb.state = "CLOSED"
    /\ cb.failureCount = 0
    /\ cb.successCount = 0
    /\ cb.lastFailureTime = NULL
    /\ \A t \in now..MaxTime : canExecute(cb, t).ret = TRUE

\* C8 witness: reset() was called on an OPEN breaker with both counters
\* nonzero.
C8_Witness ==
  /\ cbOp = "reset"
  /\ cbPre.state = "OPEN"
  /\ cbPre.successCount > 0
  /\ cbPre.failureCount > 0
  /\ cb.state = "CLOSED"

\* The last call was a canExecute() on an OPEN breaker whose timeout had
\* elapsed.
ProbedAfterTimeout ==
  /\ cbOp = "canExecute"
  /\ cbPre.state = "OPEN"
  /\ now - Num(cbPre.lastFailureTime) > cbPre.timeout

\* C22 as stated: canExecute() leaves failureCount, successCount and
\* lastFailureTime unchanged in every reachable state, and leaves the state
\* unchanged unless the state was OPEN with the timeout elapsed.
C22_Original ==
  cbOp = "canExecute" =>
    /\ cb.failureCount = cbPre.failureCount
    /\ cb.successCount = cbPre.successCount
    /\ cb.lastFailureTime = cbPre.lastFailureTime
    /\ ~ProbedAfterTimeout => cb.state = cbPre.state

\* C22 amended: canExecute() leaves failureCount, lastFailureTime,
\* failureThreshold and timeout unchanged in every reachable state; unless the
\* state was OPEN with the timeout elapsed it leaves the state and
\* successCount unchanged too, and in that case it sets the state to
\* HALF_OPEN and successCount to 0.
C22_OnlyHalfOpenEffect ==
  cbOp = "canExecute" =>
    /\ cb.failureCount = cbPre.failureCount
    /\ cb.lastFailureTime = cbPre.lastFailureTime
    /\ cb.failureThreshold = cbPre.failureThreshold
    /\ cb.timeout = cbPre.timeout
    /\ ~ProbedAfterTimeout => cb = cbPre
    /\ ProbedAfterTimeout => cb.state = "HALF_OPEN" /\ cb.successCount = 0

\* C22 witness: canExecute() has moved an OPEN breaker that had counted
\* successes to HALF_OPEN: successCount went to 0, failureCount is kept.
C22_Witness ==
  /\ ProbedAfterTimeout
  /\ cbPre.successCount > 0
  /\ cbPre.failureCount > 0
  /\ cb.state = "HALF_OPEN"
  /\ cb.successCount = 0
  /\ cb.failureCount = cbPre.failureCount

\* C23: while the breaker is CLOSED, recordSuccess() leaves failureCount and
\* the state unchanged; so on a fresh breaker failures accumulate across
\* interleaved successes: it stays CLOSED, with failureCount the number of
\* recordFailure() calls made, while fewer than failureThreshold of them were
\* made, and the failureThreshold-th recordFailure() opens it however many
\* successes came in between.
C23_FailuresAccumulate ==
  /\ (cbOp = "recordSuccess" /\ cbPre.state = "CLOSED") =>
       /\ cb.state = "CLOSED"
       /\ cb.failureCount = cbPre.failureCount
       /\ cb.lastFailureTime = cbPre.lastFailureTime
  /\ failuresRecorded < cb.failureThreshold =>
       cb.state = "CLOSED" /\ cb.failureCount = failuresRecorded
  /\ (cbOp = "recordFailure" /\ failuresRecorded = cb.failureThreshold) =>
       cbPre.state = "CLOSED" /\ cb.state = "OPEN"

\* C23 witness: threshold 3; successes came between the failures, and the
\* third recordFailure() has opened the breaker.
C23_Witness ==
  /\ cb.failureThreshold = 3
  /\ cbOp = "recordFailure"
  /\ failuresRecorded = 3
  /\ ~onlyFailures
  /\ cbPre.failureCount = 2
  /\ cbPre.successCount >= 2
  /\ cbPre.state = "CLOSED"
  /\ cb.state = "OPEN"

\* C34: whatever calls of canExecute, recordSuccess, recordFailure and reset
\* were made, a CLOSED breaker has failureCount < failureThreshold and an OPEN
\* or HALF_OPEN breaker has failureCount >= failureThreshold.
C34_CountMatchesState ==
  /\ cb.failureThreshold >= 1
  /\ cb.state = "CLOSED" => cb.failureCount < cb.failureThreshold
  /\ cb.state \in {"OPEN", "HALF_OPEN"} => cb.failureCount >= cb.failureThreshold

\* C34 witness: a breaker of threshold 2 that opened, recorded one more
\* failure while OPEN and has then been let through by canExecute: HALF_OPEN
\* with failureCount 3.
C34_Witness ==
  /\ cb.failureThreshold = 2
  /\ cbOp = "canExecute"
  /\ cbPre.state = "OPEN"
  /\ cb.state = "HALF_OPEN"
  /\ cb.failureCount = 3
  /\ ~onlyFailures

\* C35: a recordFailure() call made while the breaker is HALF_OPEN leaves it
\* OPEN with lastFailureTime set to the time of the call, whatever successes
\* were recorded since it became HALF_OPEN: from then on canExecute() admits a
\* call only once more than timeout has passed since that failure.
C35_HalfOpenFailureReopens ==
  [][ (cb.state = "HALF_OPEN" /\ cbOp' = "recordFailure" /\ cbPre' = cb) =>
        /\ cb'.state = "OPEN"
        /\ cb'.lastFailureTime = now
        /\ \A t \in now..(now + MaxTimeout + 1) :
             canExecute(cb', t).ret <=> (t - now > cb.timeout) ]_vars

\* C35 witness: a breaker of threshold 3 that was HALF_OPEN with two successes
\* recorded since has recorded a failure at time 4 and is OPEN again.
C35_Witness ==
  /\ cb.failureThreshold = 3
  /\ cbOp = "recordFailure"
  /\ cbPre.state = "HALF_OPEN"
  /\ cbPre.successCount = 2
  /\ cb.state = "OPEN"
  /\ now = 4
  /\ cb.lastFailureTime = 4

\* C36: while the breaker is HALF_OPEN its successCount is the number of
\* recordSuccess() calls made since it became HALF_OPEN, fewer than
\* failureThreshold (successes recorded before, while CLOSED or OPEN, are not
\* counted), and a call that takes it from HALF_OPEN to CLOSED is the
\* recordSuccess() that makes that number failureThreshold. (reset() closes
\* the breaker from any state and is no part of the success quota.)
C36_QuotaCountsFromHalfOpen ==
  /\ [](cb.state = "HALF_OPEN" =>
         /\ halfSucc # NULL
         /\ halfSucc < cb.failureThreshold
         /\ cb.successCount = halfSucc)
  /\ [][ (cb.state = "HALF_OPEN" /\ cb'.state = "CLOSED" /\ cbOp' # "reset") =>
           /\ cbOp' = "recordSuccess"
           /\ halfSucc' = cb.failureThreshold ]_vars

\* C36 witness: a breaker of threshold 2 had recorded two successes (while
\* CLOSED) before it opened; let through by canExecute it is HALF_OPEN with
\* none counted, and not CLOSED.
C36_Witness ==
  /\ cb.failureThreshold = 2
  /\ cbOp = "canExecute"
  /\ cbPre.state = "OPEN"
  /\ cbPre.successCount = 2
  /\ cb.state = "HALF_OPEN"
  /\ cb.successCount = 0
  /\ halfSucc = 0

\* C37: a call of getState, getFailureCount, getSuccessCount,
\* getTimeSinceLastFailure or getStatus changes neither the state of the
\* breaker nor any of its counters.
C37_AccessorsOnlyObserve ==
  [][ (cbOp' \in Getters \cup {"getStatus"} /\ cbPre' = cb) =>
        /\ cb'.state = cb.state
        /\ cb'.failureCount = cb.failureCount
        /\ cb'.successCount = cb.successCount ]_vars

====
